---- MODULE Spec2Model ----
(***************************************************************************)
(* Pain-feedback pipeline: modifier mapping, signal adapters, fusion, the  *)
(* bridge that publishes fused signals, and the consumer that turns the    *)
(* published signals into gesture modifiers with staleness fail-safe and   *)
(* edge-triggered alerts.                                                  *)
(*                                                                         *)
(* Numbers.  Python floats are modelled exactly on the values used here:   *)
(*   - a modifier is an integer number of 1/10000 (10000 = 1.0), which     *)
(*     represents the product (map value in 1/100) * (score factor in      *)
(*     1/100) without rounding;                                            *)
(*   - pain_score and confidence are rationals [n, d] in lowest terms;     *)
(*   - weights are integers in tenths (6 = 0.6);                           *)
(*   - time is an integer number of seconds.                               *)
(***************************************************************************)
EXTENDS Integers, Sequences, FiniteSets, TLC

\* Python's None (a record, so that it compares with signal records)
None == [none |-> TRUE]

VARIABLES
    \* --- one call of fuse_feedback on hand-built arguments
    arg_piezo,          \* the piezo_feedback argument (a signal or None)
    arg_face,           \* the face_feedback argument (a signal or None)
    arg_weights,        \* <<piezo_weight, face_weight>>
    fuse_result,        \* what the call returned, None before the call
    \* --- IRDSBridge and its FeedbackPublisher
    enable_fused,       \* IRDSBridge.enable_fused
    bridge_weights,     \* <<IRDSBridge.piezo_weight, IRDSBridge.face_weight>>
    heap,               \* the PainFeedback objects created so far, by identity
    _piezo_feedback,    \* IRDSBridge._piezo_feedback: an identity, 0 for None
    _face_feedback,     \* IRDSBridge._face_feedback: an identity, 0 for None
    _history,           \* FeedbackPublisher._history: identities, oldest first
    ncalls,             \* calls made on the bridge so far
    \* --- FeedbackConsumer
    default_on_missing, \* FeedbackConsumer.default_on_missing
    stale_threshold,    \* FeedbackConsumer.stale_threshold, in seconds
    _modifiers,         \* FeedbackConsumer._modifiers
    _last_update,       \* FeedbackConsumer._last_update, 0 before any update
    _on_high_pain,      \* the registered callback: NoCallback or its kind
    _on_critical_pain,  \* the registered callback: NoCallback or its kind
    now,                \* time.time()
    returned,           \* the value the get_modifiers call just made returned
    n_updates,          \* number of updates applied so far
    high_calls,         \* number of invocations of on_high_pain so far
    critical_calls,     \* number of invocations of on_critical_pain so far
    last_applied,       \* the payload of the most recent applied update and
                        \* whether the consumer was stale when it arrived
    \* --- the consumer's threads
    _lock,              \* FeedbackConsumer._lock: Free or the thread holding it
    pc,                 \* where each thread is
    stack,              \* each thread's calls in progress, outermost first
    upd_data,           \* the payload the poll thread is applying
    \* --- one call of IRDSToNachiTranslator.translate
    irds_feedback,      \* the feedback dict passed to translate
    floors,             \* the translator's <<min_speed, min_motion, min_force>>
    nachi_cmd,          \* the NachiCommand returned, None before the call
    \* --- one NachiCommand sent through to_bytes and from_bytes
    command,            \* the NachiCommand that is encoded
    wire,               \* [bytes |-> the buffer handed to from_bytes], None
                        \* before to_bytes
    parsed,             \* what from_bytes returned or raised, None before
    \* --- two calls of GestureModifier.get_modifiers
    mapper_args,        \* <<<<level, score>>, <<level, score>>>>
    mapper_results,     \* the two results, None before the calls
    \* --- one call of an adapter
    sensor_reading,     \* the PressureReading or PainReading
    sensor_kind,        \* "piezo" or "face": which adapter is called
    adapted,            \* the adapter's result, None before the call
    \* --- FeedbackPublisher used by several threads (with _history above)
    pub_lock,           \* FeedbackPublisher._lock: Free or the thread holding it
    ppc,                \* where each publishing thread is
    feedback_arg,       \* the feedback argument of each thread's publish call
    npublished,         \* publish calls begun so far
    append_log,           \* every signal append_log to _history so far, in order
    latest,             \* what the last get_latest call returned, 0 for None
    has_output_file,    \* whether FeedbackPublisher.output_file is set
    output_file,        \* the primary file: whether it exists and its content
    history_file,       \* the sibling .history.json file, likewise
    observed,           \* what the polling reader last read from output_file
    \* --- one publish call fanning out to the registered listeners
    _callbacks,         \* FeedbackPublisher._callbacks, in registration order
    behaviour,          \* what each listener does when it is invoked
    sink_failures,      \* which of the file write and socket send fail
    fan_pc,             \* where the publish call is
    fan_index,          \* the position of the "for callback in" iterator
    invocations,        \* the listeners invoked by this call, in order
    \* --- the threads that call the bridge (with the bridge variables above)
    bridge_lock,        \* IRDSBridge._lock: Free or the thread holding it
    bpc,                \* where each thread is in its call on the bridge
    blocal,             \* each thread's call: its kind, the signal it made
                        \* and the signal it hands to publish
    unlocked_reads,     \* the shared fields read so far without their lock
    pairs_seen,         \* every <<_piezo_feedback, _face_feedback>> so far
    ticks_done,         \* publish_fused calls that have returned
    bridge_log,         \* per returned update call: the signal made from
                        \* its reading and the signal it published
    \* --- the consumer's background loop (with the consumer variables above)
    transport,          \* "file" or "socket": which loop start() runs
    feedback_file,      \* the polled file: whether it exists, its mtime, its text
    _last_file_mtime,   \* FeedbackConsumer._last_file_mtime
    loop_alive,         \* FALSE once an exception has left the loop
    iterations,         \* iterations of the loop so far
    last_payload,       \* the text the last iteration read, if it read one
    \* --- FeedbackConsumer.start / stop (with the consumer's threads above)
    _running,           \* FeedbackConsumer._running
    stop_pc,            \* where the caller of stop() is
    updates_at_stop,    \* n_updates when stop() cleared the flag
    \* --- is_safe_to_proceed / get_adjusted_params (with the consumer variables)
    safety_result,      \* what the last of these calls returned, None before
    \* --- NachiInterface
    protocol,           \* NachiInterface.protocol
    _connected,         \* NachiInterface._connected
    _last_command,      \* NachiInterface._last_command, None before any
    last_sent,          \* the command of the last send_command that
                        \* returned True, None before any
    send_result,        \* what the last send_command returned, None before
    nsends,             \* send_command calls so far
    \* --- FeedbackPublisher.get_history (with _history above)
    got_history,        \* the count and the result of the last get_history
                        \* call, None before any and after a publish
    \* --- the bridge's fusion loop feeding a consumer through the file
    stamps,             \* the timestamp field of each object of heap
    stopped_at,         \* when the sensors stopped delivering, 0 while they do
    fused_at,           \* the time of the latest fusion tick, 0 before any
    \* --- the bridge's fusion loop as a thread
    bridge_running,     \* IRDSBridge._running
    died_calls,         \* ncalls when the loop thread died, 0 while it has not
    \* --- run.py : FeedbackController
    arm_speed,          \* FeedbackController.arm_speed, a percentage
    arm_active,         \* FeedbackController.arm_active
    last_level,         \* the level of the last reading processed, "" before any
    nreadings           \* the number of process_reading calls made

fuseVars == <<arg_piezo, arg_face, arg_weights, fuse_result>>

bridgeVars == <<enable_fused, bridge_weights, heap, _piezo_feedback, _face_feedback,
                _history, ncalls>>

consumerVars == <<default_on_missing, stale_threshold, _modifiers, _last_update,
                  _on_high_pain, _on_critical_pain, now, returned, n_updates,
                  high_calls, critical_calls, last_applied>>

threadVars == <<_lock, pc, stack, upd_data>>

translatorVars == <<irds_feedback, floors, nachi_cmd>>

codecVars == <<command, wire, parsed>>

mapperVars == <<mapper_args, mapper_results>>

adapterVars == <<sensor_reading, sensor_kind, adapted>>

callVars == <<translatorVars, codecVars, mapperVars, adapterVars>>

publisherVars == <<pub_lock, ppc, feedback_arg, npublished, append_log, latest,
                   has_output_file, output_file, history_file, observed>>

\* the bridge's variables other than the publisher's history
bridgeOnlyVars == <<enable_fused, bridge_weights, heap, _piezo_feedback, _face_feedback,
                    ncalls>>

fanoutVars == <<_callbacks, behaviour, sink_failures, fan_pc, fan_index, invocations>>

bridgeThreadVars == <<bridge_lock, bpc, blocal, unlocked_reads, pairs_seen, ticks_done,
                      bridge_log>>

receiveVars == <<transport, feedback_file, _last_file_mtime, loop_alive, iterations,
                 last_payload>>

stopVars == <<_running, stop_pc, updates_at_stop>>

safetyVars == <<safety_result>>

nachiVars == <<protocol, _connected, _last_command, last_sent, send_result, nsends>>

historyVars == <<got_history>>

pipelineVars == <<stamps, stopped_at, fused_at>>

fusionLoopVars == <<bridge_running, died_calls>>

controllerVars == <<arm_speed, arm_active, last_level, nreadings>>

lateVars == <<stopVars, safetyVars, nachiVars, historyVars, pipelineVars, fusionLoopVars,
              controllerVars>>

vars == <<fuseVars, bridgeVars, consumerVars, threadVars, callVars, publisherVars,
          fanoutVars, bridgeThreadVars, receiveVars, lateVars>>

\* ------------------------------------------------------------------------
\* Bounds of the model
\* ------------------------------------------------------------------------
\* distance between the sensor scores fed to the adapters (scores 0, 55)
ScoreStep == 55
\* modifier values of hand-built signals are k/ModSteps, k in 0..ModSteps
ModSteps == 1
\* the bridge performs at most MaxCalls calls
MaxCalls == 3
\* the consumer's clock runs from 1 to MaxTime
MaxTime == 5
\* the consumer applies at most MaxUpdates updates
MaxUpdates == 3
\* the consumer's stale_threshold is 1..MaxThreshold seconds
MaxThreshold == 2
\* the poll thread applies at most MaxThreadUpdates updates
MaxThreadUpdates == 2
\* updates with any level that follow the scripted ones
MaxExtra == 2

\* ------------------------------------------------------------------------
\* Rational numbers in lowest terms
\* ------------------------------------------------------------------------
RECURSIVE Gcd(_, _)
Gcd(a, b) == IF b = 0 THEN a ELSE Gcd(b, a % b)

Rat(n, d) == IF n = 0 THEN [n |-> 0, d |-> 1]
             ELSE [n |-> n \div Gcd(n, d), d |-> d \div Gcd(n, d)]

RatMul(x, y) == Rat(x.n * y.n, x.d * y.d)

RatAdd(x, y) == Rat(x.n * y.d + y.n * x.d, x.d * y.d)

Min2(x, y) == IF x <= y THEN x ELSE y

Max2(x, y) == IF x >= y THEN x ELSE y

\* ------------------------------------------------------------------------
\* irds_interface.py : PainLevel, GestureModifier
\* ------------------------------------------------------------------------
PainLevel == [NONE |-> 0, LIGHT |-> 1, MODERATE |-> 2, HIGH |-> 3, CRITICAL |-> 4]

\* map values in 1/100
DEFAULT_SPEED_MAP == [l \in 0..4 |-> CASE l = 0 -> 100 [] l = 1 -> 80 [] l = 2 -> 50
                                        [] l = 3 -> 20 [] l = 4 -> 0]

DEFAULT_AMPLITUDE_MAP == [l \in 0..4 |-> CASE l = 0 -> 100 [] l = 1 -> 90 [] l = 2 -> 70
                                            [] l = 3 -> 50 [] l = 4 -> 0]

\* a force map whose LIGHT and MODERATE entries changed places
DEFAULT_FORCE_MAP_swapped == [l \in 0..4 |-> CASE l = 0 -> 100 [] l = 1 -> 60 [] l = 2 -> 85
                                                [] l = 3 -> 30 [] l = 4 -> 0]

DEFAULT_FORCE_MAP == [l \in 0..4 |-> CASE l = 0 -> 100 [] l = 1 -> 85 [] l = 2 -> 60
                                        [] l = 3 -> 30 [] l = 4 -> 0]

\* a mapper that pauses at every level from HIGH up
get_modifiers_pause_ge(pain_level, pain_score) ==
    LET level == Min2(4, Max2(0, pain_level))
        speed == DEFAULT_SPEED_MAP[level]
        amplitude == DEFAULT_AMPLITUDE_MAP[level]
        force == DEFAULT_FORCE_MAP[level]
        score_factor == 100 - (pain_score % 20)
    IN  [speed_modifier |-> speed * score_factor,
         amplitude_modifier |-> amplitude * score_factor,
         force_modifier |-> force * score_factor,
         should_pause |-> (level >= PainLevel.HIGH),
         should_stop |-> (level = PainLevel.CRITICAL)]

\* GestureModifier.get_modifiers(pain_level, pain_score); pain_score an
\* integer percentage; Python's % yields a value in 0..19 for every sign
get_modifiers(pain_level, pain_score) ==
    LET level == Min2(4, Max2(0, pain_level))
        speed == DEFAULT_SPEED_MAP[level]
        amplitude == DEFAULT_AMPLITUDE_MAP[level]
        force == DEFAULT_FORCE_MAP[level]
        score_factor == 100 - (pain_score % 20)
    IN  [speed_modifier |-> speed * score_factor,
         amplitude_modifier |-> amplitude * score_factor,
         force_modifier |-> force * score_factor,
         should_pause |-> (level = PainLevel.HIGH),
         should_stop |-> (level = PainLevel.CRITICAL)]

\* GestureModifier.create_feedback; confidence a rational
create_feedback(pain_level, pain_level_name, pain_score, source, confidence) ==
    LET modifiers == get_modifiers(pain_level, pain_score)
    IN  [pain_level |-> pain_level,
         pain_level_name |-> pain_level_name,
         pain_score |-> Rat(pain_score, 1),
         source |-> source,
         confidence |-> confidence,
         speed_modifier |-> modifiers.speed_modifier,
         amplitude_modifier |-> modifiers.amplitude_modifier,
         force_modifier |-> modifiers.force_modifier,
         should_pause |-> modifiers.should_pause,
         should_stop |-> modifiers.should_stop]

\* ------------------------------------------------------------------------
\* irds_interface.py : adapters
\* ------------------------------------------------------------------------
PIEZO_LEVEL_MAP == [NONE |-> 0, LIGHT |-> 1, MODERATE |-> 2, HIGH |-> 3, CRITICAL |-> 4]

FACE_LEVEL_MAP == [NONE |-> 0, MILD |-> 1, MODERATE |-> 2, SEVERE |-> 3, EXTREME |-> 4]

\* dict.get(key, default) on a level map
MapGet(map, key, default) == IF key \in DOMAIN map THEN map[key] ELSE default

\* an adapter that would fail safe on a level name it does not know
piezo_to_feedback_failsafe(reading) ==
    LET level == MapGet(PIEZO_LEVEL_MAP, reading.level, PainLevel.CRITICAL)
    IN  create_feedback(level, reading.level, reading.percent, "piezo", Rat(1, 1))

piezo_to_feedback(reading) ==
    LET level == MapGet(PIEZO_LEVEL_MAP, reading.level, PainLevel.NONE)
    IN  create_feedback(level, reading.level, reading.percent, "piezo", Rat(1, 1))

\* an adapter that trusts the reading whether or not a face was detected
face_to_feedback_sure(reading) ==
    LET level == MapGet(FACE_LEVEL_MAP, reading.level, PainLevel.NONE)
    IN  create_feedback(level, reading.level, reading.pain_score, "face", Rat(9, 10))

face_to_feedback(reading) ==
    LET level == MapGet(FACE_LEVEL_MAP, reading.level, PainLevel.NONE)
    IN  create_feedback(level, reading.level, reading.pain_score, "face",
                        IF reading.face_detected THEN Rat(9, 10) ELSE Rat(0, 1))

\* ------------------------------------------------------------------------
\* irds_interface.py : fuse_feedback
\* ------------------------------------------------------------------------
level_names == <<"NONE", "LIGHT", "MODERATE", "HIGH", "CRITICAL">>

\* a fusion that takes the lower level
FusedLevel_min(piezo_feedback, face_feedback) ==
    Min2(piezo_feedback.pain_level, face_feedback.pain_level)

\* fused level: the maximum of the two levels
FusedLevel(piezo_feedback, face_feedback) ==
    Max2(piezo_feedback.pain_level, face_feedback.pain_level)

\* a fusion that takes the more permissive speed
FusedSpeed_max(piezo_feedback, face_feedback) ==
    Max2(piezo_feedback.speed_modifier, face_feedback.speed_modifier)

\* fused modifiers: the element-wise minimum
FusedSpeed(piezo_feedback, face_feedback) ==
    Min2(piezo_feedback.speed_modifier, face_feedback.speed_modifier)

\* a fusion whose amplitude line compares against the face's speed
FusedAmplitude_slip(piezo_feedback, face_feedback) ==
    Min2(piezo_feedback.amplitude_modifier, face_feedback.speed_modifier)

FusedAmplitude(piezo_feedback, face_feedback) ==
    Min2(piezo_feedback.amplitude_modifier, face_feedback.amplitude_modifier)

FusedForce(piezo_feedback, face_feedback) ==
    Min2(piezo_feedback.force_modifier, face_feedback.force_modifier)

\* fused flags
FusedPause(piezo_feedback, face_feedback) ==
    piezo_feedback.should_pause \/ face_feedback.should_pause

\* a fusion that stops only when both sources say stop
FusedStop_and(piezo_feedback, face_feedback) ==
    piezo_feedback.should_stop /\ face_feedback.should_stop

FusedStop(piezo_feedback, face_feedback) ==
    piezo_feedback.should_stop \/ face_feedback.should_stop

\* the weighted fusion of two present signals (lines 648-694);
\* total_weight = 0 makes the division raise ZeroDivisionError
FuseBoth(piezo_feedback, face_feedback, piezo_weight, face_weight) ==
    LET total_weight == piezo_weight + face_weight
    IN  IF total_weight = 0 THEN [raised |-> "ZeroDivisionError"]
        ELSE
        LET piezo_w == Rat(piezo_weight, total_weight)
            face_w == Rat(face_weight, total_weight)
            fused_score ==
                RatAdd(RatMul(RatMul(piezo_feedback.pain_score, piezo_w),
                              piezo_feedback.confidence),
                       RatMul(RatMul(face_feedback.pain_score, face_w),
                              face_feedback.confidence))
            fused_level == FusedLevel(piezo_feedback, face_feedback)
            fused_speed == FusedSpeed(piezo_feedback, face_feedback)
            fused_amplitude == FusedAmplitude(piezo_feedback, face_feedback)
            fused_force == FusedForce(piezo_feedback, face_feedback)
            fused_confidence == RatAdd(RatMul(piezo_feedback.confidence, piezo_w),
                                       RatMul(face_feedback.confidence, face_w))
            fused_level_name == level_names[Min2(fused_level, 4) + 1]
        IN  [pain_level |-> fused_level,
             pain_level_name |-> fused_level_name,
             pain_score |-> fused_score,
             source |-> "fused",
             confidence |-> fused_confidence,
             speed_modifier |-> fused_speed,
             amplitude_modifier |-> fused_amplitude,
             force_modifier |-> fused_force,
             should_pause |-> FusedPause(piezo_feedback, face_feedback),
             should_stop |-> FusedStop(piezo_feedback, face_feedback)]

\* a fusion that rebuilds a lone input from its level and score
fuse_feedback_rebuilt(piezo_feedback, face_feedback, piezo_weight, face_weight) ==
    IF piezo_feedback = None /\ face_feedback = None
    THEN create_feedback(0, "NONE", 0, "fused", Rat(0, 1))
    ELSE IF piezo_feedback = None
    THEN create_feedback(face_feedback.pain_level, face_feedback.pain_level_name,
                         face_feedback.pain_score.n \div face_feedback.pain_score.d,
                         "fused", face_feedback.confidence)
    ELSE IF face_feedback = None
    THEN create_feedback(piezo_feedback.pain_level, piezo_feedback.pain_level_name,
                         piezo_feedback.pain_score.n \div piezo_feedback.pain_score.d,
                         "fused", piezo_feedback.confidence)
    ELSE FuseBoth(piezo_feedback, face_feedback, piezo_weight, face_weight)

\* a fusion that reports the empty signal with full confidence
fuse_feedback_sure(piezo_feedback, face_feedback, piezo_weight, face_weight) ==
    IF piezo_feedback = None /\ face_feedback = None
    THEN create_feedback(0, "NONE", 0, "fused", Rat(1, 1))
    ELSE IF piezo_feedback = None
    THEN [face_feedback EXCEPT !.source = "fused"]
    ELSE IF face_feedback = None
    THEN [piezo_feedback EXCEPT !.source = "fused"]
    ELSE FuseBoth(piezo_feedback, face_feedback, piezo_weight, face_weight)

\* the value fuse_feedback returns
fuse_feedback(piezo_feedback, face_feedback, piezo_weight, face_weight) ==
    IF piezo_feedback = None /\ face_feedback = None
    THEN create_feedback(0, "NONE", 0, "fused", Rat(0, 1))
    ELSE IF piezo_feedback = None
    THEN [face_feedback EXCEPT !.source = "fused"]
    ELSE IF face_feedback = None
    THEN [piezo_feedback EXCEPT !.source = "fused"]
    ELSE FuseBoth(piezo_feedback, face_feedback, piezo_weight, face_weight)

\* fuse_feedback's effect on its arguments: the one-input pass-through
\* relabels the argument object itself (lines 641, 645)
FusePiezoAfter(piezo_feedback, face_feedback) ==
    IF piezo_feedback # None /\ face_feedback = None
    THEN [piezo_feedback EXCEPT !.source = "fused"]
    ELSE piezo_feedback

FuseFaceAfter(piezo_feedback, face_feedback) ==
    IF piezo_feedback = None /\ face_feedback # None
    THEN [face_feedback EXCEPT !.source = "fused"]
    ELSE face_feedback

\* ------------------------------------------------------------------------
\* Inputs
\* ------------------------------------------------------------------------
Scores == {k * ScoreStep : k \in 0..(100 \div ScoreStep)}

ModVals == {(k * 10000) \div ModSteps : k \in 0..ModSteps}

\* weights in tenths: the defaults 0.6 / 0.4, one source only, equal weights
WeightPairs == {<<6, 4>>, <<10, 0>>, <<5, 5>>, <<0, 0>>}

\* hand-built signals of one source: any level, modifiers and flags
HandSignals(source, confidences) ==
    {[pain_level |-> l,
      pain_level_name |-> level_names[l + 1],
      pain_score |-> Rat(20 * l + 5, 1),
      source |-> source,
      confidence |-> c,
      speed_modifier |-> sp,
      amplitude_modifier |-> am,
      force_modifier |-> (sp + am) \div 2,
      should_pause |-> pa,
      should_stop |-> st] :
        l \in 0..4, c \in confidences, sp \in ModVals, am \in ModVals,
        pa \in BOOLEAN, st \in BOOLEAN}

PiezoLevelNames == {"NONE", "LIGHT", "MODERATE", "HIGH", "CRITICAL", "SEVERE"}

FaceLevelNames == {"NONE", "MILD", "MODERATE", "SEVERE", "EXTREME", "HIGH"}

\* PressureReading: the fields the adapter reads
PiezoReadings == [level : PiezoLevelNames, percent : Scores]

\* PainReading of the face detector: the fields the adapter reads
FaceReadings == [level : FaceLevelNames, pain_score : Scores, face_detected : BOOLEAN]

\* ------------------------------------------------------------------------
\* One call of fuse_feedback
\* ------------------------------------------------------------------------
FuseIdle ==
    /\ arg_piezo = None
    /\ arg_face = None
    /\ arg_weights = <<6, 4>>
    /\ fuse_result = [done |-> TRUE]

InitFuse ==
    /\ arg_piezo \in HandSignals("piezo", {Rat(1, 1)}) \cup {None}
    /\ arg_face \in HandSignals("face", {Rat(9, 10)}) \cup {None}
    /\ arg_weights \in WeightPairs
    /\ fuse_result = None

CallFuse ==
    /\ fuse_result = None
    /\ fuse_result' = fuse_feedback(arg_piezo, arg_face, arg_weights[1], arg_weights[2])
    /\ arg_piezo' = FusePiezoAfter(arg_piezo, arg_face)
    /\ arg_face' = FuseFaceAfter(arg_piezo, arg_face)
    /\ UNCHANGED arg_weights

\* ------------------------------------------------------------------------
\* irds_bridge.py : IRDSBridge, with FeedbackPublisher.publish
\* ------------------------------------------------------------------------
_max_history == 100

BridgeIdle ==
    /\ enable_fused = TRUE
    /\ bridge_weights = <<6, 4>>
    /\ heap = <<>>
    /\ _piezo_feedback = 0
    /\ _face_feedback = 0
    /\ _history = <<>>
    /\ ncalls = 0

InitBridge ==
    /\ enable_fused \in BOOLEAN
    /\ bridge_weights = <<6, 4>>
    /\ heap = <<>>
    /\ _piezo_feedback = 0
    /\ _face_feedback = 0
    /\ _history = <<>>
    /\ ncalls = 0

\* the object behind a reference
Deref(h, ref) == IF ref = 0 THEN None ELSE h[ref]

\* a publish that would skip an object already at the end of the history
publish_dedup(history, ref) ==
    LET appended == IF Len(history) > 0 /\ history[Len(history)] = ref
                    THEN history ELSE Append(history, ref)
    IN  IF Len(appended) > _max_history THEN Tail(appended) ELSE appended

\* FeedbackPublisher.publish: the history after publishing object ref
publish(history, ref) ==
    LET appended == Append(history, ref)
    IN  IF Len(appended) > _max_history THEN Tail(appended) ELSE appended

update_piezo(reading) ==
    /\ ncalls < MaxCalls
    /\ ncalls' = ncalls + 1
    /\ heap' = Append(heap, piezo_to_feedback(reading))
    /\ _piezo_feedback' = Len(heap) + 1
    /\ _history' = IF ~enable_fused THEN publish(_history, _piezo_feedback')
                                    ELSE _history
    /\ UNCHANGED <<enable_fused, bridge_weights, _face_feedback>>

update_face(reading) ==
    /\ ncalls < MaxCalls
    /\ ncalls' = ncalls + 1
    /\ heap' = Append(heap, face_to_feedback(reading))
    /\ _face_feedback' = Len(heap) + 1
    /\ _history' = IF ~enable_fused THEN publish(_history, _face_feedback')
                                    ELSE _history
    /\ UNCHANGED <<enable_fused, bridge_weights, _piezo_feedback>>

\* publish_fused: fuse_feedback returns a new object, or (one input) the
\* stored object itself after relabelling it, or raises (weights sum to 0)
publish_fused ==
    LET p == Deref(heap, _piezo_feedback)
        f == Deref(heap, _face_feedback)
        fused == fuse_feedback(p, f, bridge_weights[1], bridge_weights[2])
    IN  /\ ncalls < MaxCalls
        /\ ncalls' = ncalls + 1
        /\ IF p # None /\ f # None /\ "raised" \in DOMAIN fused
           THEN UNCHANGED <<heap, _history>>
           ELSE IF p = None /\ f # None
           THEN /\ heap' = [heap EXCEPT ![_face_feedback] = fused]
                /\ _history' = publish(_history, _face_feedback)
           ELSE IF p # None /\ f = None
           THEN /\ heap' = [heap EXCEPT ![_piezo_feedback] = fused]
                /\ _history' = publish(_history, _piezo_feedback)
           ELSE /\ heap' = Append(heap, fused)
                /\ _history' = publish(_history, Len(heap) + 1)
        /\ UNCHANGED <<enable_fused, bridge_weights, _piezo_feedback, _face_feedback>>

\* ------------------------------------------------------------------------
\* irds_consumer_example.py : GestureModifiers, FeedbackConsumer
\* ------------------------------------------------------------------------
GestureModifiersFields == {"speed_modifier", "amplitude_modifier", "force_modifier",
                           "should_pause", "should_stop", "pain_level", "pain_score",
                           "timestamp", "confidence"}

\* the dataclass defaults (1.0 = 10000)
GestureModifiersDefaults ==
    [speed_modifier |-> 10000, amplitude_modifier |-> 10000, force_modifier |-> 10000,
     should_pause |-> FALSE, should_stop |-> FALSE, pain_level |-> 0,
     pain_score |-> Rat(0, 1), timestamp |-> 0, confidence |-> Rat(0, 1)]

\* GestureModifiers(**kwargs): the given fields, defaults for the others
GestureModifiers(kwargs) ==
    [k \in GestureModifiersFields |->
        IF k \in DOMAIN kwargs THEN kwargs[k] ELSE GestureModifiersDefaults[k]]

\* data.get(key, default) on a payload dict
DictGet(data, key, default) == IF key \in DOMAIN data THEN data[key] ELSE default

NoCallback == "None"

\* a consumer whose defaults for missing fields would be the fail-safe ones
UpdatedModifiers_cautious(data, time) ==
    GestureModifiers(
        [speed_modifier |-> DictGet(data, "speed_modifier", 5000),
         amplitude_modifier |-> DictGet(data, "amplitude_modifier", 5000),
         force_modifier |-> DictGet(data, "force_modifier", 5000),
         should_pause |-> DictGet(data, "should_pause", TRUE),
         should_stop |-> DictGet(data, "should_stop", FALSE),
         pain_level |-> DictGet(data, "pain_level", 0),
         pain_score |-> DictGet(data, "pain_score", Rat(0, 1)),
         timestamp |-> DictGet(data, "timestamp", time),
         confidence |-> DictGet(data, "confidence", Rat(0, 1))])

\* _update_modifiers: the modifiers built from the payload
UpdatedModifiers(data, time) ==
    GestureModifiers(
        [speed_modifier |-> DictGet(data, "speed_modifier", 10000),
         amplitude_modifier |-> DictGet(data, "amplitude_modifier", 10000),
         force_modifier |-> DictGet(data, "force_modifier", 10000),
         should_pause |-> DictGet(data, "should_pause", FALSE),
         should_stop |-> DictGet(data, "should_stop", FALSE),
         pain_level |-> DictGet(data, "pain_level", 0),
         pain_score |-> DictGet(data, "pain_score", Rat(0, 1)),
         timestamp |-> DictGet(data, "timestamp", time),
         confidence |-> DictGet(data, "confidence", Rat(0, 1))])

\* two independent ifs instead of if / elif
AlertFor_both(old_level, new_level, on_high, on_critical) ==
    (IF new_level >= 4 /\ old_level < 4 /\ on_critical # NoCallback
     THEN {"critical"} ELSE {})
    \cup (IF new_level >= 3 /\ old_level < 3 /\ on_high # NoCallback
          THEN {"high"} ELSE {})

\* a level-triggered critical alert: no comparison with the old level
AlertFor_level(old_level, new_level, on_high, on_critical) ==
    IF new_level >= 4 /\ on_critical # NoCallback THEN {"critical"}
    ELSE IF new_level >= 3 /\ old_level < 3 /\ on_high # NoCallback THEN {"high"}
    ELSE {}

\* the high threshold tested first
AlertFor_swapped(old_level, new_level, on_high, on_critical) ==
    IF new_level >= 3 /\ old_level < 3 /\ on_high # NoCallback THEN {"high"}
    ELSE IF new_level >= 4 /\ old_level < 4 /\ on_critical # NoCallback THEN {"critical"}
    ELSE {}

\* _update_modifiers: the callbacks the update invokes (lines 187-191)
AlertFor(old_level, new_level, on_high, on_critical) ==
    IF new_level >= 4 /\ old_level < 4 /\ on_critical # NoCallback THEN {"critical"}
    ELSE IF new_level >= 3 /\ old_level < 3 /\ on_high # NoCallback THEN {"high"}
    ELSE {}

\* stale as soon as the age reaches the threshold
IsStale_ge(last_update, threshold, time) ==
    last_update > 0 /\ time - last_update >= threshold

\* whether get_modifiers treats the data as stale at time `time`
IsStale(last_update, threshold, time) ==
    last_update > 0 /\ time - last_update > threshold

\* stale defaults that would keep a stop the last signal asked for
GetModifiers_keep_stop(modifiers, last_update, missing_default, threshold, time) ==
    IF IsStale(last_update, threshold, time) /\ missing_default
    THEN GestureModifiers([speed_modifier |-> Min2(5000, modifiers.speed_modifier),
                           amplitude_modifier |-> 5000,
                           force_modifier |-> 5000, should_pause |-> TRUE,
                           should_stop |-> modifiers.should_stop,
                           confidence |-> Rat(0, 1)])
    ELSE IF last_update = 0 /\ missing_default
    THEN GestureModifiers(<<>>)
    ELSE GestureModifiers(modifiers)

\* get_modifiers: the value returned at time `time`
GetModifiers(modifiers, last_update, missing_default, threshold, time) ==
    IF IsStale(last_update, threshold, time) /\ missing_default
    THEN GestureModifiers([speed_modifier |-> 5000, amplitude_modifier |-> 5000,
                           force_modifier |-> 5000, should_pause |-> TRUE,
                           confidence |-> Rat(0, 1)])
    ELSE IF last_update = 0 /\ missing_default
    THEN GestureModifiers(<<>>)
    ELSE GestureModifiers(modifiers)

ConsumerIdle ==
    /\ default_on_missing = TRUE
    /\ stale_threshold = 2
    /\ _modifiers = GestureModifiers(<<>>)
    /\ _last_update = 0
    /\ _on_high_pain = NoCallback
    /\ _on_critical_pain = NoCallback
    /\ now = 1
    /\ returned = None
    /\ n_updates = 0
    /\ high_calls = 0
    /\ critical_calls = 0
    /\ last_applied = None

\* FeedbackConsumer.__init__ (the clock reads 1 at construction), followed
\* by the registration of the given callbacks
InitConsumerWith(thresholds, on_high, on_critical) ==
    /\ default_on_missing \in BOOLEAN
    /\ stale_threshold \in thresholds
    /\ _modifiers = GestureModifiers(<<>>)
    /\ _last_update = 0
    /\ _on_high_pain = on_high
    /\ _on_critical_pain = on_critical
    /\ now = 1
    /\ returned = None
    /\ n_updates = 0
    /\ high_calls = 0
    /\ critical_calls = 0
    /\ last_applied = None

InitConsumer == InitConsumerWith(1..MaxThreshold, NoCallback, NoCallback)

set_high_pain_callback(callback) ==
    /\ _on_high_pain' = callback
    /\ returned' = None
    /\ UNCHANGED <<default_on_missing, stale_threshold, _modifiers, _last_update,
                   _on_critical_pain, now, n_updates, high_calls, critical_calls,
                   last_applied>>

set_critical_pain_callback(callback) ==
    /\ _on_critical_pain' = callback
    /\ returned' = None
    /\ UNCHANGED <<default_on_missing, stale_threshold, _modifiers, _last_update,
                   _on_high_pain, now, n_updates, high_calls, critical_calls,
                   last_applied>>

\* a consumer that would date an update by the signal's own timestamp
ReceiveTime_stamp(data, time) == DictGet(data, "timestamp", time)

\* "self._last_update = time.time()" (line 184): the time of the receipt
ReceiveTime(data, time) == time

\* the assignments of _update_modifiers and the callback it invokes
ApplyUpdate(data) ==
    LET alert == AlertFor(_modifiers.pain_level, DictGet(data, "pain_level", 0),
                          _on_high_pain, _on_critical_pain)
    IN  /\ _modifiers' = UpdatedModifiers(data, now)
        /\ _last_update' = ReceiveTime(data, now)
        /\ n_updates' = n_updates + 1
        /\ high_calls' = high_calls + (IF "high" \in alert THEN 1 ELSE 0)
        /\ critical_calls' = critical_calls + (IF "critical" \in alert THEN 1 ELSE 0)
        /\ last_applied' = [data |-> data, at |-> now,
                            stale_before |-> IsStale(_last_update, stale_threshold, now)]

\* _update_modifiers(data), called by the poll / listen loop
_update_modifiers(data) ==
    /\ n_updates < MaxUpdates
    /\ ApplyUpdate(data)
    /\ returned' = None
    /\ UNCHANGED <<default_on_missing, stale_threshold, _on_high_pain,
                   _on_critical_pain, now>>

\* get_modifiers(), called by the gesture loop
CallGetModifiers ==
    /\ returned' = GetModifiers(_modifiers, _last_update, default_on_missing,
                                stale_threshold, now)
    /\ UNCHANGED <<default_on_missing, stale_threshold, _modifiers, _last_update,
                   _on_high_pain, _on_critical_pain, now, n_updates, high_calls,
                   critical_calls, last_applied>>

\* one second passes
Tick ==
    /\ now < MaxTime
    /\ now' = now + 1
    /\ returned' = None
    /\ UNCHANGED <<default_on_missing, stale_threshold, _modifiers, _last_update,
                   _on_high_pain, _on_critical_pain, n_updates, high_calls,
                   critical_calls, last_applied>>

\* the payloads the consumer receives: the wire form of a signal made by the
\* mapper, a payload that carries only a level, and the empty object
WirePayload(level, score, time) ==
    LET fb == create_feedback(level, level_names[level + 1], score, "fused", Rat(1, 1))
    IN  [timestamp |-> time, pain_level |-> fb.pain_level,
         pain_level_name |-> fb.pain_level_name, pain_score |-> fb.pain_score,
         source |-> fb.source, confidence |-> fb.confidence,
         speed_modifier |-> fb.speed_modifier,
         amplitude_modifier |-> fb.amplitude_modifier,
         force_modifier |-> fb.force_modifier,
         should_pause |-> fb.should_pause, should_stop |-> fb.should_stop]

Payloads(time) ==
    {WirePayload(l, s, time) : l \in 0..4, s \in Scores}
        \cup {[pain_level |-> l] : l \in 0..4}
        \cup {<<>>}

\* ------------------------------------------------------------------------
\* irds_consumer_example.py : the consumer's threads and its lock
\* ------------------------------------------------------------------------
\* the background poll / listen thread and the thread of the gesture loop
Threads == {"poll", "gesture"}

Free == "free"

ThreadsIdle ==
    /\ _lock = Free
    /\ pc = [t \in Threads |-> "idle"]
    /\ stack = [t \in Threads |-> <<>>]
    /\ upd_data = None

\* the two scripted callbacks: one that only records the alert, and one that
\* asks the consumer whether it is safe to proceed (is_safe_to_proceed calls
\* get_modifiers)
CallbackKinds == {"plain", "reenter"}

\* the payloads the poll thread receives: one signal per level
ThreadPayloads(time) == {WirePayload(l, 0, time) : l \in 0..4}

\* the poll thread has received a payload and calls _update_modifiers
begin_update(data) ==
    /\ pc["poll"] = "idle"
    /\ n_updates < MaxThreadUpdates
    /\ pc' = [pc EXCEPT !["poll"] = "wait_lock"]
    /\ stack' = [stack EXCEPT !["poll"] = <<"update">>]
    /\ upd_data' = data
    /\ returned' = None
    /\ UNCHANGED <<_lock, default_on_missing, stale_threshold, _modifiers,
                   _last_update, _on_high_pain, _on_critical_pain, now, n_updates,
                   high_calls, critical_calls, last_applied>>

\* the gesture thread calls get_modifiers (directly or through
\* is_safe_to_proceed / get_adjusted_params)
begin_get ==
    /\ pc["gesture"] = "idle"
    /\ pc' = [pc EXCEPT !["gesture"] = "wait_lock"]
    /\ stack' = [stack EXCEPT !["gesture"] = <<"get">>]
    /\ returned' = None
    /\ UNCHANGED <<_lock, upd_data, default_on_missing, stale_threshold, _modifiers,
                   _last_update, _on_high_pain, _on_critical_pain, now, n_updates,
                   high_calls, critical_calls, last_applied>>

\* `with self._lock:` - threading.Lock is not reentrant: the acquire waits
\* until the lock is free, whoever holds it
acquire(t) ==
    /\ pc[t] = "wait_lock"
    /\ _lock = Free
    /\ _lock' = t
    /\ pc' = [pc EXCEPT ![t] = "locked"]
    /\ UNCHANGED <<stack, upd_data, consumerVars>>

\* the body of _update_modifiers under the lock: the assignments, then the
\* callback, invoked while the lock is still held.  A plain callback returns
\* and the lock is released; a callback that calls get_modifiers starts
\* that call, which waits for the lock
update_body(t) ==
    LET alert == AlertFor(_modifiers.pain_level, DictGet(upd_data, "pain_level", 0),
                          _on_high_pain, _on_critical_pain)
        kind == IF "critical" \in alert THEN _on_critical_pain
                ELSE IF "high" \in alert THEN _on_high_pain
                ELSE NoCallback
    IN  /\ pc[t] = "locked"
        /\ stack[t] = <<"update">>
        /\ ApplyUpdate(upd_data)
        /\ IF kind = "reenter"
           THEN /\ stack' = [stack EXCEPT ![t] = <<"update", "get">>]
                /\ pc' = [pc EXCEPT ![t] = "wait_lock"]
                /\ UNCHANGED _lock
           ELSE /\ stack' = [stack EXCEPT ![t] = <<>>]
                /\ pc' = [pc EXCEPT ![t] = "idle"]
                /\ _lock' = Free
        /\ returned' = None
        /\ UNCHANGED <<upd_data, default_on_missing, stale_threshold, _on_high_pain,
                       _on_critical_pain, now>>

\* the body of get_modifiers under the lock; leaving the with-block releases
\* the lock and the call returns to its caller
get_body(t) ==
    /\ pc[t] = "locked"
    /\ stack[t] # <<>>
    /\ stack[t][Len(stack[t])] = "get"
    /\ returned' = GetModifiers(_modifiers, _last_update, default_on_missing,
                                stale_threshold, now)
    /\ _lock' = Free
    /\ stack' = [stack EXCEPT ![t] = <<>>]
    /\ pc' = [pc EXCEPT ![t] = "idle"]
    /\ UNCHANGED <<upd_data, default_on_missing, stale_threshold, _modifiers,
                   _last_update, _on_high_pain, _on_critical_pain, now, n_updates,
                   high_calls, critical_calls, last_applied>>

\* ------------------------------------------------------------------------
\* The edge-trigger scenario of the consumer
\* ------------------------------------------------------------------------
\* the levels fed in order
Script == <<1, 2, 3, 3, 2, 4, 4, 1>>

ScriptedUpdate(data) ==
    /\ n_updates < Len(Script) + MaxExtra
    /\ n_updates < Len(Script) => DictGet(data, "pain_level", 0) = Script[n_updates + 1]
    /\ ApplyUpdate(data)
    /\ returned' = None
    /\ UNCHANGED <<default_on_missing, stale_threshold, _on_high_pain,
                   _on_critical_pain, now>>

\* ------------------------------------------------------------------------
\* nachi_interface.py : IRDSToNachiTranslator
\* ------------------------------------------------------------------------
\* distance, in thousandths, between the speed modifiers fed to translate
ModifierStep == 4

\* int(modifier * 100): the product is truncated toward zero.  A modifier is
\* an integer number of 1/10000 and the product is taken exactly; in binary
\* floating point the product of a few modifiers (0.29, 0.57, 0.58) falls
\* just below the exact value and truncates one lower still.
IntPercent(modifier) ==
    IF modifier >= 0 THEN modifier \div 100 ELSE -((-modifier) \div 100)

\* "if should_stop: speed_override = 0; motion_scale = 0"
StopOverride_keep(should_stop, percent) == percent

StopOverride(should_stop, percent) == IF should_stop THEN 0 ELSE percent

translate(feedback, min_speed, min_motion, min_force, time) ==
    LET speed_mod == DictGet(feedback, "speed_modifier", 10000)
        amp_mod == DictGet(feedback, "amplitude_modifier", 10000)
        force_mod == DictGet(feedback, "force_modifier", 10000)
        should_stop == DictGet(feedback, "should_stop", FALSE)
    IN  [speed_override |-> StopOverride(should_stop, Max2(min_speed, IntPercent(speed_mod))),
         motion_scale |-> StopOverride(should_stop, Max2(min_motion, IntPercent(amp_mod))),
         force_limit |-> Max2(min_force, IntPercent(force_mod)),
         external_pause |-> DictGet(feedback, "should_pause", FALSE),
         external_stop |-> should_stop,
         enable_motion |-> ~should_stop,
         timestamp |-> DictGet(feedback, "timestamp", time),
         source |-> "pain_feedback",
         confidence |-> DictGet(feedback, "confidence", Rat(0, 1)),
         pain_level |-> DictGet(feedback, "pain_level", 0)]

\* the translator's defaults
DefaultFloors == <<5, 10, 10>>

\* <<min_speed, min_motion, min_force>> of the translators that are built
FloorChoices == {DefaultFloors, <<0, 0, 0>>, <<50, 60, 100>>, <<20, 5, 101>>}

\* speed modifiers 0.000, 0.004, ..., 1.000
FineModifiers == {k * ModifierStep * 10 : k \in 0..(1000 \div ModifierStep)}

\* the feedback dicts handed to translate: complete ones, and two that lack
\* most keys
TranslatorFeedbacks ==
    [speed_modifier : FineModifiers,
     amplitude_modifier : {0, 3339, 10000},
     force_modifier : {0, 2999, 10000},
     should_pause : BOOLEAN,
     should_stop : BOOLEAN,
     timestamp : {1},
     confidence : {Rat(9, 10)},
     pain_level : {2}]
    \cup {[pain_level |-> 2], [should_stop |-> TRUE]}

TranslatorIdle ==
    /\ irds_feedback = None
    /\ floors = DefaultFloors
    /\ nachi_cmd = [done |-> TRUE]

InitTranslator ==
    /\ irds_feedback \in TranslatorFeedbacks
    /\ floors \in FloorChoices
    /\ nachi_cmd = None

CallTranslate ==
    /\ nachi_cmd = None
    /\ nachi_cmd' = translate(irds_feedback, floors[1], floors[2], floors[3], now)
    /\ UNCHANGED <<irds_feedback, floors>>

\* ------------------------------------------------------------------------
\* nachi_interface.py : NachiCommand.to_bytes / from_bytes
\* struct format '<BBBBHHd': little-endian, no padding, 16 bytes
\* ------------------------------------------------------------------------
\* a received buffer is up to MaxDamage bytes shorter or longer than sent
MaxDamage == 2

\* the bits of v, most significant first, in a field of the given width
BitsOf(v, width) == [i \in 1..width |-> (v \div (2 ^ (width - i))) % 2]

\* the number whose bits, most significant first, are given
RECURSIVE BitsValue(_)
BitsValue(bits) ==
    IF Len(bits) = 0 THEN 0
    ELSE 2 * BitsValue(SubSeq(bits, 1, Len(bits) - 1)) + bits[Len(bits)]

\* floor(log2(n)) for n >= 1
RECURSIVE Log2(_)
Log2(n) == IF n <= 1 THEN 0 ELSE 1 + Log2(n \div 2)

\* 'B': one unsigned byte
PackB(v) == <<v>>

\* 'H': an unsigned 16-bit integer, low byte first
PackH(v) == <<v % 256, v \div 256>>

UnpackH(bytes) == bytes[1] + 256 * bytes[2]

\* the IEEE 754 binary64 image of a whole number 0 <= x < 2^31: sign bit,
\* 11 exponent bits biased by 1023, 52 fraction bits
Float64Bits(x) ==
    IF x = 0 THEN [i \in 1..64 |-> 0]
    ELSE LET e == Log2(x)
         IN  <<0>> \o BitsOf(1023 + e, 11) \o BitsOf(x - 2 ^ e, e)
                   \o [i \in 1..(52 - e) |-> 0]

\* 'd' little-endian: the least significant byte of the image first
PackD(x) ==
    LET bits == Float64Bits(x)
    IN  [k \in 1..8 |-> BitsValue(SubSeq(bits, 8 * (8 - k) + 1, 8 * (8 - k) + 8))]

\* the number a binary64 image denotes; an image that is not a whole number
\* below 2^31 stands for itself
UnpackD(bytes) ==
    LET bits == BitsOf(bytes[8], 8) \o BitsOf(bytes[7], 8) \o BitsOf(bytes[6], 8)
                \o BitsOf(bytes[5], 8) \o BitsOf(bytes[4], 8) \o BitsOf(bytes[3], 8)
                \o BitsOf(bytes[2], 8) \o BitsOf(bytes[1], 8)
        e == BitsValue(SubSeq(bits, 2, 12)) - 1023
    IN  IF \A i \in 1..64 : bits[i] = 0 THEN 0
        ELSE IF /\ bits[1] = 0
                /\ e \in 0..30
                /\ \A i \in (13 + e)..64 : bits[i] = 0
             THEN 2 ^ e + BitsValue(SubSeq(bits, 13, 12 + e))
             ELSE [float64 |-> bits]

\* flags byte: (1 if external_pause) | (2 if external_stop) | (4 if enable_motion)
PackFlags_swapped(external_pause, external_stop, enable_motion) ==
    (IF external_pause THEN 1 ELSE 0) + (IF external_stop THEN 4 ELSE 0)
        + (IF enable_motion THEN 2 ELSE 0)

PackFlags(external_pause, external_stop, enable_motion) ==
    (IF external_pause THEN 1 ELSE 0) + (IF external_stop THEN 2 ELSE 0)
        + (IF enable_motion THEN 4 ELSE 0)

\* int(confidence * 1000)
ConfidenceMilli(confidence) == (confidence.n * 1000) \div confidence.d

\* the bytes object returned is [bytes |-> the sequence of its bytes]
to_bytes(cmd) ==
    LET flags == PackFlags(cmd.external_pause, cmd.external_stop, cmd.enable_motion)
        conf == ConfidenceMilli(cmd.confidence)
    IN  IF /\ cmd.speed_override \in 0..255
           /\ cmd.motion_scale \in 0..255
           /\ cmd.force_limit \in 0..255
           /\ cmd.pain_level \in 0..65535
           /\ conf \in 0..65535
        THEN [bytes |-> PackB(cmd.speed_override) \o PackB(cmd.motion_scale)
                          \o PackB(cmd.force_limit) \o PackB(flags)
                          \o PackH(cmd.pain_level) \o PackH(conf)
                          \o PackD(cmd.timestamp)]
        ELSE [raised |-> "struct.error"]

\* struct.unpack requires a buffer of exactly the size of the format
LengthError_short(data) == Len(data) < 16

LengthError(data) == Len(data) # 16

from_bytes(data) ==
    IF LengthError(data) THEN [raised |-> "struct.error"]
    ELSE LET flags == data[4]
         IN  [speed_override |-> data[1],
              motion_scale |-> data[2],
              force_limit |-> data[3],
              external_pause |-> (flags % 2 = 1),
              external_stop |-> ((flags \div 2) % 2 = 1),
              enable_motion |-> ((flags \div 4) % 2 = 1),
              timestamp |-> UnpackD(SubSeq(data, 9, 16)),
              source |-> "pain_feedback",
              confidence |-> Rat(UnpackH(SubSeq(data, 7, 8)), 1000),
              pain_level |-> UnpackH(SubSeq(data, 5, 6))]

\* valid commands: percentages in 0..100, any flags, pain_level in 0..65535,
\* confidence in [0, 1], any source
ValidCommands ==
    [speed_override : {0, 37, 100},
     motion_scale : {100},
     force_limit : {10},
     external_pause : BOOLEAN,
     external_stop : BOOLEAN,
     enable_motion : BOOLEAN,
     timestamp : {0, 3, 1700000000},
     source : {"pain_feedback", "manual"},
     confidence : {Rat(0, 1), Rat(9, 10), Rat(1, 1), Rat(1234, 10000), Rat(1, 3)},
     pain_level : {0, 4, 256, 65535}]

CodecIdle ==
    /\ command = None
    /\ wire = [done |-> TRUE]
    /\ parsed = [done |-> TRUE]

InitCodec ==
    /\ command \in ValidCommands
    /\ wire = None
    /\ parsed = None

CallToBytes ==
    /\ wire = None
    /\ wire' = to_bytes(command)
    /\ UNCHANGED <<command, parsed>>

\* the buffer that reaches from_bytes has lost its last bytes, or all of
\* them, or has bytes append_log
Damage(delta) ==
    /\ wire # None
    /\ parsed = None
    /\ wire = to_bytes(command)
    /\ wire' = [bytes |-> IF delta < 0
                          THEN SubSeq(wire.bytes, 1, Len(wire.bytes) + delta)
                          ELSE wire.bytes \o [i \in 1..delta |-> 255]]
    /\ UNCHANGED <<command, parsed>>

Damages == {d \in (0 - MaxDamage)..MaxDamage : d # 0} \cup {-16}

CallFromBytes ==
    /\ wire # None
    /\ "bytes" \in DOMAIN wire
    /\ parsed = None
    /\ parsed' = from_bytes(wire.bytes)
    /\ UNCHANGED <<command, wire>>

\* ------------------------------------------------------------------------
\* Two calls of GestureModifier.get_modifiers on the default maps
\* ------------------------------------------------------------------------
\* levels from MaxOutside below NONE to MaxOutside above CRITICAL are passed
MaxOutside == 2
\* distance between the scores passed (0, 6, ..., 96)
MapperScoreStep == 6

MapperLevels == (0 - MaxOutside)..(4 + MaxOutside)

MapperScores == {k * MapperScoreStep : k \in 0..(100 \div MapperScoreStep)}

MapperCalls == [level : MapperLevels, score : MapperScores]

MapperIdle ==
    /\ mapper_args = None
    /\ mapper_results = [done |-> TRUE]

InitMapper ==
    /\ mapper_args \in [a : MapperCalls, b : MapperCalls]
    /\ mapper_results = None

CallGetModifiersTwice ==
    /\ mapper_results = None
    /\ mapper_results' =
          [a |-> get_modifiers(mapper_args.a.level, mapper_args.a.score),
           b |-> get_modifiers(mapper_args.b.level, mapper_args.b.score)]
    /\ UNCHANGED mapper_args

\* ------------------------------------------------------------------------
\* One call of piezo_to_feedback or face_to_feedback
\* ------------------------------------------------------------------------
\* level strings a sensor may report: both vocabularies and two strings of
\* neither
ReportedLevelNames == PiezoLevelNames \cup FaceLevelNames \cup {"none", "UNKNOWN"}

AdapterPiezoReadings == [level : ReportedLevelNames, percent : MapperScores]

AdapterFaceReadings ==
    [level : ReportedLevelNames, pain_score : MapperScores, face_detected : BOOLEAN]

AdapterIdle ==
    /\ sensor_reading = None
    /\ sensor_kind = "none"
    /\ adapted = [done |-> TRUE]

InitAdapter ==
    /\ sensor_kind \in {"piezo", "face"}
    /\ sensor_reading \in (IF sensor_kind = "piezo" THEN AdapterPiezoReadings
                           ELSE AdapterFaceReadings)
    /\ adapted = None

CallPiezoToFeedback ==
    /\ adapted = None
    /\ sensor_kind = "piezo"
    /\ adapted' = piezo_to_feedback(sensor_reading)
    /\ UNCHANGED <<sensor_reading, sensor_kind>>

CallFaceToFeedback ==
    /\ adapted = None
    /\ sensor_kind = "face"
    /\ adapted' = face_to_feedback(sensor_reading)
    /\ UNCHANGED <<sensor_reading, sensor_kind>>

CallsIdle == TranslatorIdle /\ CodecIdle /\ MapperIdle /\ AdapterIdle

\* ------------------------------------------------------------------------
\* irds_interface.py : FeedbackPublisher.publish and get_latest, called by
\* several threads; no file, socket or listener is configured
\* ------------------------------------------------------------------------
\* the main thread publishes at most MaxPublishes signals
MaxPublishes == 102

\* the main thread publishes and reads the latest signal in turn; another
\* thread publishes one signal at any moment
PubThreads == {"main", "other"}

\* with a file sink the main thread publishes at most MaxFilePublishes signals
MaxFilePublishes == 3

\* a file that does not exist yet
NoFile == [exists |-> FALSE, chunks |-> <<>>]

fileVars == <<has_output_file, output_file, history_file, observed>>

PublisherIdle ==
    /\ pub_lock = Free
    /\ ppc = [t \in PubThreads |-> "done"]
    /\ feedback_arg = [t \in PubThreads |-> 0]
    /\ npublished = 0
    /\ append_log = <<>>
    /\ latest = 0
    /\ has_output_file = FALSE
    /\ output_file = NoFile
    /\ history_file = NoFile
    /\ observed = NoFile

InitPublisherWith(file) ==
    /\ _history = <<>>
    /\ pub_lock = Free
    /\ ppc = [t \in PubThreads |-> "idle"]
    /\ feedback_arg = [t \in PubThreads |-> 0]
    /\ npublished = 0
    /\ append_log = <<>>
    /\ latest = 0
    /\ has_output_file = file
    /\ output_file = NoFile
    /\ history_file = NoFile
    /\ observed = NoFile

InitPublisher == InitPublisherWith(FALSE)

\* a thread calls publish with a new signal
begin_publish(t) ==
    /\ ppc[t] = "idle"
    /\ npublished < (IF has_output_file THEN MaxFilePublishes ELSE MaxPublishes)
    /\ t = "other" => feedback_arg[t] = 0
    /\ npublished' = npublished + 1
    /\ feedback_arg' = [feedback_arg EXCEPT ![t] = npublished + 1]
    /\ ppc' = [ppc EXCEPT ![t] = "append"]
    /\ UNCHANGED <<_history, pub_lock, append_log, latest, fileVars>>

\* "with self._lock: self._history.append(feedback)"
publish_append(t) ==
    /\ ppc[t] = "append"
    /\ pub_lock = Free
    /\ pub_lock' = t
    /\ _history' = Append(_history, feedback_arg[t])
    /\ append_log' = Append(append_log, feedback_arg[t])
    /\ ppc' = [ppc EXCEPT ![t] = "trim"]
    /\ UNCHANGED <<feedback_arg, npublished, latest, fileVars>>

\* a history trimmed one signal too early
Trim_ge(history) ==
    IF Len(history) >= _max_history THEN Tail(history) ELSE history

\* "if len(self._history) > self._max_history: self._history.pop(0)"
Trim(history) ==
    IF Len(history) > _max_history THEN Tail(history) ELSE history

\* where publish returns to: the main thread goes on to get_latest
Returned(t) == IF t = "main" THEN "get" ELSE "idle"

\* the rest of the locked block, then "if self.output_file:"
publish_trim(t) ==
    /\ ppc[t] = "trim"
    /\ pub_lock = t
    /\ _history' = Trim(_history)
    /\ pub_lock' = Free
    /\ ppc' = [ppc EXCEPT ![t] = IF has_output_file THEN "open" ELSE Returned(t)]
    /\ UNCHANGED <<feedback_arg, npublished, append_log, latest, fileVars>>

\* feedback.to_json(): the document of a signal, in chunks; documents differ
\* in length with the values they carry
to_json(feedback) ==
    [i \in 1..(1 + (feedback % 2)) |-> [of |-> feedback, part |-> i]]

\* a write of a whole text at the start of a file opened with 'w' by this
\* writer: text the file received from another writer since stays beyond
\* the end of the new text
WriteAtStart(chunks, text) ==
    text \o SubSeq(chunks, Len(text) + 1, Len(chunks))

\* "with open(self.output_file, 'w') as f": the file is created or emptied
open_output_file(t) ==
    /\ ppc[t] = "open"
    /\ output_file' = [exists |-> TRUE, chunks |-> <<>>]
    /\ ppc' = [ppc EXCEPT ![t] = "write"]
    /\ UNCHANGED <<_history, pub_lock, feedback_arg, npublished, append_log, latest,
                   has_output_file, history_file, observed>>

\* "f.write(feedback.to_json())" and the close that flushes it
write_output_file(t) ==
    /\ ppc[t] = "write"
    /\ output_file' = [exists |-> TRUE,
                       chunks |-> WriteAtStart(output_file.chunks, to_json(feedback_arg[t]))]
    /\ ppc' = [ppc EXCEPT ![t] = "open_history"]
    /\ UNCHANGED <<_history, pub_lock, feedback_arg, npublished, append_log, latest,
                   has_output_file, history_file, observed>>

\* "with open(history_file, 'w') as f"
open_history_file(t) ==
    /\ ppc[t] = "open_history"
    /\ history_file' = [exists |-> TRUE, chunks |-> <<>>]
    /\ ppc' = [ppc EXCEPT ![t] = "write_history"]
    /\ UNCHANGED <<_history, pub_lock, feedback_arg, npublished, append_log, latest,
                   has_output_file, output_file, observed>>

\* self._history[-20:]
HistoryFileCount == 20

RecentHistory(history) ==
    SubSeq(history, Max2(1, Len(history) - HistoryFileCount + 1), Len(history))

\* "json.dump([fb.to_dict() for fb in self._history[-20:]], f)", one chunk
\* per signal, and the close; the history is read without the lock
write_history_file(t) ==
    /\ ppc[t] = "write_history"
    /\ history_file' = [exists |-> TRUE,
                        chunks |-> WriteAtStart(history_file.chunks,
                                                RecentHistory(_history))]
    /\ ppc' = [ppc EXCEPT ![t] = Returned(t)]
    /\ UNCHANGED <<_history, pub_lock, feedback_arg, npublished, append_log, latest,
                   has_output_file, output_file, observed>>

\* the polling consumer opens and reads the primary file, if it exists
read_output_file ==
    /\ output_file.exists
    /\ observed' = output_file
    /\ UNCHANGED <<_history, pub_lock, ppc, feedback_arg, npublished, append_log, latest,
                   has_output_file, output_file, history_file>>

\* get_latest: "with self._lock: return self._history[-1] if self._history
\* else None"
get_latest ==
    /\ ppc["main"] = "get"
    /\ pub_lock = Free
    /\ latest' = IF Len(_history) > 0 THEN _history[Len(_history)] ELSE 0
    /\ ppc' = [ppc EXCEPT !["main"] = "idle"]
    /\ UNCHANGED <<_history, pub_lock, feedback_arg, npublished, append_log, fileVars>>

\* ------------------------------------------------------------------------
\* irds_interface.py : FeedbackPublisher.publish, the sinks and the fan-out
\* to the listeners (add_callback, remove_callback)
\* ------------------------------------------------------------------------
Listeners == {"a", "b", "c"}

\* what a listener does with the signal: return, raise, or call
\* remove_callback or add_callback for some listener and return
Behaviours ==
    {[kind |-> "return", target |-> "a"], [kind |-> "raise", target |-> "a"]}
    \cup [kind : {"remove", "add"}, target : Listeners]

\* the lists of distinct listeners
Registrations ==
    {list \in UNION {[1..n -> Listeners] : n \in 0..Cardinality(Listeners)} :
        \A i \in DOMAIN list, j \in DOMAIN list : i # j => list[i] # list[j]}

FanoutIdle ==
    /\ _callbacks = <<>>
    /\ behaviour = [l \in Listeners |-> [kind |-> "return", target |-> "a"]]
    /\ sink_failures = {}
    /\ fan_pc = "done"
    /\ fan_index = 0
    /\ invocations = <<>>

InitFanout ==
    /\ _callbacks \in Registrations
    /\ behaviour \in [Listeners -> Behaviours]
    /\ sink_failures \in SUBSET {"file", "socket"}
    /\ fan_pc = "sinks"
    /\ fan_index = 0
    /\ invocations = <<>>

\* _write_to_file and _send_socket: an exception is caught inside each, so
\* the call goes on to the listeners whatever failed
attempt_sinks ==
    /\ fan_pc = "sinks"
    /\ fan_pc' = "loop"
    /\ UNCHANGED <<_callbacks, behaviour, sink_failures, fan_index, invocations>>

\* list.remove(callback) if callback in list: the first occurrence goes
RECURSIVE Remove(_, _)
Remove(list, callback) ==
    IF Len(list) = 0 THEN <<>>
    ELSE IF Head(list) = callback THEN Tail(list)
    ELSE <<Head(list)>> \o Remove(Tail(list), callback)

\* the registrations after the listener has run; a listener that adds does
\* so for a listener that is not registered
AfterListener(list, what) ==
    CASE what.kind = "remove" -> Remove(list, what.target)
      [] what.kind = "add" ->
            IF \E i \in 1..Len(list) : list[i] = what.target THEN list
            ELSE Append(list, what.target)
      [] OTHER -> list

\* one turn of "for callback in self._callbacks: try: callback(feedback)
\* except Exception": the list iterator takes the element at its position
\* in the list as it is now, and moves on
invoke_next ==
    /\ fan_pc = "loop"
    /\ fan_index < Len(_callbacks)
    /\ fan_index' = fan_index + 1
    /\ invocations' = Append(invocations, _callbacks[fan_index + 1])
    /\ _callbacks' = AfterListener(_callbacks, behaviour[_callbacks[fan_index + 1]])
    /\ UNCHANGED <<behaviour, sink_failures, fan_pc>>

\* the iterator is past the end of the list: publish returns
end_fanout ==
    /\ fan_pc = "loop"
    /\ fan_index >= Len(_callbacks)
    /\ fan_pc' = "done"
    /\ UNCHANGED <<_callbacks, behaviour, sink_failures, fan_index, invocations>>

\* ------------------------------------------------------------------------
\* irds_bridge.py : update_piezo, update_face and publish_fused called by
\* concurrent threads; publisher.publish is its locked block
\* ------------------------------------------------------------------------
\* the threads make at most MaxBridgeCalls calls on the bridge
MaxBridgeCalls == 3

\* two sensor threads, each of which may deliver readings of either
\* source, and the thread of start_fusion_loop
SensorThreads == {"s1", "s2"}

BridgeThreads == SensorThreads \cup {"fusion"}

NoCall == [kind |-> "none", made |-> 0, sent |-> 0]

ThreadPiezoReadings == [level : {"LIGHT", "HIGH"}, percent : {0}]

ThreadFaceReadings == [level : {"MODERATE"}, pain_score : {0}, face_detected : BOOLEAN]

BridgeThreadsIdle ==
    /\ bridge_lock = Free
    /\ bpc = [t \in BridgeThreads |-> "done"]
    /\ blocal = [t \in BridgeThreads |-> NoCall]
    /\ unlocked_reads = {}
    /\ pairs_seen = {}
    /\ ticks_done = 0
    /\ bridge_log = <<>>

InitBridgeThreads ==
    /\ bridge_lock = Free
    /\ bpc = [t \in BridgeThreads |-> "idle"]
    /\ blocal = [t \in BridgeThreads |-> NoCall]
    /\ unlocked_reads = {}
    /\ pairs_seen = {<<0, 0>>}
    /\ ticks_done = 0
    /\ bridge_log = <<>>

\* update_piezo, lines 102-103: "with self._lock:" is entered when the lock
\* is free, and the signal is made and stored
store_piezo(t, reading) ==
    /\ t \in SensorThreads
    /\ bpc[t] = "idle"
    /\ ncalls < MaxBridgeCalls
    /\ bridge_lock = Free
    /\ ncalls' = ncalls + 1
    /\ heap' = Append(heap, piezo_to_feedback(reading))
    /\ _piezo_feedback' = Len(heap) + 1
    /\ pairs_seen' = pairs_seen \cup {<<Len(heap) + 1, _face_feedback>>}
    /\ blocal' = [blocal EXCEPT ![t] = [kind |-> "piezo", made |-> Len(heap) + 1,
                                        sent |-> 0]]
    /\ bridge_lock' = t
    /\ bpc' = [bpc EXCEPT ![t] = "unlock"]
    /\ UNCHANGED <<enable_fused, bridge_weights, _face_feedback, _history,
                   unlocked_reads, ticks_done, bridge_log>>

\* update_face, lines 115-116
store_face(t, reading) ==
    /\ t \in SensorThreads
    /\ bpc[t] = "idle"
    /\ ncalls < MaxBridgeCalls
    /\ bridge_lock = Free
    /\ ncalls' = ncalls + 1
    /\ heap' = Append(heap, face_to_feedback(reading))
    /\ _face_feedback' = Len(heap) + 1
    /\ pairs_seen' = pairs_seen \cup {<<_piezo_feedback, Len(heap) + 1>>}
    /\ blocal' = [blocal EXCEPT ![t] = [kind |-> "face", made |-> Len(heap) + 1,
                                        sent |-> 0]]
    /\ bridge_lock' = t
    /\ bpc' = [bpc EXCEPT ![t] = "unlock"]
    /\ UNCHANGED <<enable_fused, bridge_weights, _piezo_feedback, _history,
                   unlocked_reads, ticks_done, bridge_log>>

\* a fusion loop that would catch the error and go on to its next tick
AfterUnlock_caught(kind, fusing) ==
    IF kind = "raised" THEN "idle"
    ELSE IF kind = "fused" THEN "publish"
    ELSE IF fusing THEN "idle" ELSE "read"

\* where a thread goes on after leaving "with self._lock:": an error raised
\* by fuse_feedback leaves publish_fused and fusion_loop, which catch
\* nothing (lines 121-147), and ends the thread
AfterUnlock(kind, fusing) ==
    IF kind = "raised" THEN "dead"
    ELSE IF kind = "fused" THEN "publish"
    ELSE IF fusing THEN "idle" ELSE "read"

\* the end of a "with self._lock:" block releases the lock; update_piezo
\* and update_face then test enable_fused (lines 105, 118) and return when
\* fusion is enabled, publish_fused goes on to publish (line 131)
release_bridge_lock(t) ==
    /\ bpc[t] = "unlock"
    /\ bridge_lock = t
    /\ bridge_lock' = Free
    /\ bpc' = [bpc EXCEPT ![t] = AfterUnlock(blocal[t].kind, enable_fused)]
    /\ UNCHANGED <<bridgeVars, blocal, unlocked_reads, pairs_seen, ticks_done, bridge_log>>

\* the argument of "self.publisher.publish(self._piezo_feedback)" (line 106)
\* or "...(self._face_feedback)" (line 119): the field is read after the
\* lock has been released
read_stored(t) ==
    /\ bpc[t] = "read"
    /\ blocal' = [blocal EXCEPT ![t].sent = IF blocal[t].kind = "piezo"
                                            THEN _piezo_feedback ELSE _face_feedback]
    /\ unlocked_reads' = unlocked_reads \cup
          (IF bridge_lock = t THEN {}
           ELSE {IF blocal[t].kind = "piezo" THEN "IRDSBridge._piezo_feedback"
                 ELSE "IRDSBridge._face_feedback"})
    /\ bpc' = [bpc EXCEPT ![t] = "publish"]
    /\ UNCHANGED <<bridgeVars, bridge_lock, pairs_seen, ticks_done, bridge_log>>

\* publish_fused, lines 123-129: fuse_feedback on the two stored signals
\* under the bridge lock; a lone input is relabelled in place and returned
fuse_stored(t) ==
    LET p == Deref(heap, _piezo_feedback)
        f == Deref(heap, _face_feedback)
        fused == fuse_feedback(p, f, bridge_weights[1], bridge_weights[2])
    IN  /\ t = "fusion"
        /\ enable_fused
        /\ bpc[t] = "idle"
        /\ ncalls < MaxBridgeCalls
        /\ bridge_lock = Free
        /\ ncalls' = ncalls + 1
        /\ IF p = None /\ f # None
           THEN /\ heap' = [heap EXCEPT ![_face_feedback] = fused]
                /\ blocal' = [blocal EXCEPT ![t] = [kind |-> "fused", made |-> _face_feedback,
                                                    sent |-> _face_feedback]]
           ELSE IF p # None /\ f = None
           THEN /\ heap' = [heap EXCEPT ![_piezo_feedback] = fused]
                /\ blocal' = [blocal EXCEPT ![t] = [kind |-> "fused", made |-> _piezo_feedback,
                                                    sent |-> _piezo_feedback]]
           ELSE /\ heap' = Append(heap, fused)
                /\ blocal' = [blocal EXCEPT ![t] = [kind |-> "fused", made |-> Len(heap) + 1,
                                                    sent |-> Len(heap) + 1]]
        /\ bridge_lock' = t
        /\ bpc' = [bpc EXCEPT ![t] = "unlock"]
        /\ UNCHANGED <<enable_fused, bridge_weights, _piezo_feedback, _face_feedback,
                       _history, unlocked_reads, pairs_seen, ticks_done, bridge_log>>

\* publisher.publish(...) and the return of the call on the bridge
publish_and_return(t) ==
    /\ bpc[t] = "publish"
    /\ _history' = publish(_history, blocal[t].sent)
    /\ IF blocal[t].kind = "fused"
       THEN /\ ticks_done' = ticks_done + 1
            /\ UNCHANGED bridge_log
       ELSE /\ bridge_log' = Append(bridge_log, [made |-> blocal[t].made,
                                                 sent |-> blocal[t].sent])
            /\ UNCHANGED ticks_done
    /\ bpc' = [bpc EXCEPT ![t] = "idle"]
    /\ UNCHANGED <<enable_fused, bridge_weights, heap, _piezo_feedback, _face_feedback,
                   ncalls, bridge_lock, blocal, unlocked_reads, pairs_seen>>

\* ------------------------------------------------------------------------
\* irds_consumer_example.py : _poll_file, _read_feedback_file, _listen_socket
\* and the texts they parse
\* ------------------------------------------------------------------------
\* the background loop makes at most MaxIterations iterations
MaxIterations == 2

\* a JSON text is a sequence of tokens
OpenBrace == [t |-> "{"]

CloseBrace == [t |-> "}"]

Pair(key, value) == [t |-> "pair", key |-> key, value |-> value]

\* the fields of PainFeedback in declaration order, as asdict lists them
KeyOrder == <<"timestamp", "pain_level", "pain_level_name", "pain_score", "source",
              "confidence", "speed_modifier", "amplitude_modifier", "force_modifier",
              "should_pause", "should_stop">>

RECURSIVE PairsOf(_, _)
PairsOf(data, keys) ==
    IF keys = <<>> THEN <<>>
    ELSE (IF Head(keys) \in DOMAIN data
          THEN <<Pair(Head(keys), data[Head(keys)])>> ELSE <<>>)
         \o PairsOf(data, Tail(keys))

\* json.dumps of a dict
json_dumps(data) == <<OpenBrace>> \o PairsOf(data, KeyOrder) \o <<CloseBrace>>

ParseError == [raised |-> "JSONDecodeError", type |-> "none", items |-> <<>>]

Parsed(type, items) == [raised |-> "", type |-> type, items |-> items]

\* json.load / json.loads: the value of a whole document, JSONDecodeError
\* for anything else; in an object the last pair of a key wins
json_loads(text) ==
    LET n == Len(text)
        inner == 2..(n - 1)
        LastOfKey(k) == CHOOSE i \in inner :
                           /\ text[i].key = k
                           /\ \A j \in inner : j > i => text[j].key # k
    IN  IF n = 0 THEN ParseError
        ELSE IF text[1].t = "{"
        THEN IF n >= 2 /\ text[n].t = "}" /\ \A i \in inner : text[i].t = "pair"
             THEN Parsed("dict", [k \in {text[i].key : i \in inner} |->
                                      text[LastOfKey(k)].value])
             ELSE ParseError
        ELSE IF text[1].t = "["
        THEN IF n = 2 /\ text[2].t = "]" THEN Parsed("list", <<>>) ELSE ParseError
        ELSE IF n = 1 /\ text[1].t \in {"number", "string", "null", "true"}
        THEN Parsed(text[1].t, <<>>)
        ELSE ParseError

\* data.decode('utf-8') followed by json.loads (line 158)
DecodeAndLoad(datagram) ==
    IF datagram.utf8 THEN json_loads(datagram.text)
    ELSE [raised |-> "UnicodeDecodeError", type |-> "none", items |-> <<>>]

\* a list would answer data.get like a dict
HasGet_list(result) == result.type \in {"dict", "list"}

\* whether "data.get(...)" (lines 174-182) can be evaluated: only a dict
\* has the method, every other value raises AttributeError
HasGet(result) == result.type = "dict"

\* the exception that the try block of an iteration raises, "" for none
RaisedBy(result) ==
    IF result.raised # "" THEN result.raised
    ELSE IF ~HasGet(result) THEN "AttributeError"
    ELSE ""

\* the subclasses of Exception among them: "except Exception" catches these
ExceptionSubclasses == {"JSONDecodeError", "UnicodeDecodeError", "AttributeError"}

\* the try block around the parse and _update_modifiers (lines 139-144,
\* 157-164): the update is applied when nothing is raised; an exception
\* raised by the parse or by the first data.get leaves every field as it
\* was, and the with statement releases the lock
HandleParsed(result) ==
    /\ IF result.raised = "" /\ HasGet(result)
       THEN ApplyUpdate(result.items)
       ELSE UNCHANGED <<_modifiers, _last_update, n_updates, high_calls, critical_calls,
                        last_applied>>
    /\ loop_alive' = (RaisedBy(result) = "" \/ RaisedBy(result) \in ExceptionSubclasses)

\* the signals the publisher may have sent: a whole signal of level
\* CRITICAL stamped by the publisher's clock, an object that carries only a
\* level, and the empty object
ReceivePayloads ==
    {WirePayload(4, 0, 1), [pain_level |-> 3], <<>>}

\* the texts that reach the consumer: whole documents, documents cut short
\* (the empty text included), JSON values that are not objects, and junk
Documents == {json_dumps(d) : d \in ReceivePayloads}

CutShort ==
    {SubSeq(json_dumps(d), 1, n) : d \in {WirePayload(4, 0, 1)}, n \in {0, 2}}

NonObjects == {<<[t |-> "["], [t |-> "]"]>>, <<[t |-> "null"]>>}

Junk == {<<[t |-> "junk"]>>}

Texts == Documents \cup CutShort \cup NonObjects \cup Junk

\* what recvfrom gives: a datagram, which may not be UTF-8, or socket.timeout
Datagrams ==
    {[timeout |-> FALSE, utf8 |-> TRUE, text |-> x] : x \in Texts}
        \cup {[timeout |-> FALSE, utf8 |-> FALSE, text |-> <<[t |-> "junk"]>>],
              [timeout |-> TRUE, utf8 |-> TRUE, text |-> <<>>]}

NoPayload == [read |-> FALSE, text |-> <<>>]

MissingFile == [exists |-> FALSE, mtime |-> 0, text |-> <<>>]

ReceiveIdle ==
    /\ transport = "none"
    /\ feedback_file = MissingFile
    /\ _last_file_mtime = 0
    /\ loop_alive = FALSE
    /\ iterations = 0
    /\ last_payload = NoPayload

\* __init__ (line 91) and start(): one of the two loops is running
InitReceive ==
    /\ transport \in {"file", "socket"}
    /\ feedback_file = MissingFile
    /\ _last_file_mtime = 0
    /\ loop_alive = TRUE
    /\ iterations = 0
    /\ last_payload = NoPayload

\* the publisher (or anything else) rewrites the polled file
write_feedback_file(text) ==
    /\ transport = "file"
    /\ feedback_file' = [exists |-> TRUE, mtime |-> now, text |-> text]
    /\ UNCHANGED <<consumerVars, transport, _last_file_mtime, loop_alive, iterations,
                   last_payload>>

\* one iteration of _poll_file (lines 126-135) with _read_feedback_file
\* (lines 139-144)
_poll_file ==
    /\ transport = "file"
    /\ loop_alive
    /\ iterations < MaxIterations
    /\ iterations' = iterations + 1
    /\ IF feedback_file.exists /\ feedback_file.mtime > _last_file_mtime
       THEN /\ _last_file_mtime' = feedback_file.mtime
            /\ last_payload' = [read |-> TRUE, text |-> feedback_file.text]
            /\ HandleParsed(json_loads(feedback_file.text))
       ELSE /\ last_payload' = NoPayload
            /\ UNCHANGED <<_last_file_mtime, loop_alive, _modifiers, _last_update,
                           n_updates, high_calls, critical_calls, last_applied>>
    /\ UNCHANGED <<default_on_missing, stale_threshold, _on_high_pain, _on_critical_pain,
                   now, returned, transport, feedback_file>>

\* one iteration of _listen_socket (lines 156-164)
_listen_socket(datagram) ==
    /\ transport = "socket"
    /\ loop_alive
    /\ iterations < MaxIterations
    /\ iterations' = iterations + 1
    /\ IF datagram.timeout
       THEN /\ last_payload' = NoPayload
            /\ UNCHANGED <<loop_alive, _modifiers, _last_update, n_updates, high_calls,
                           critical_calls, last_applied>>
       ELSE /\ last_payload' = [read |-> TRUE,
                                text |-> IF datagram.utf8 THEN datagram.text
                                         ELSE <<[t |-> "not utf-8"]>>]
            /\ HandleParsed(DecodeAndLoad(datagram))
    /\ UNCHANGED <<default_on_missing, stale_threshold, _on_high_pain, _on_critical_pain,
                   now, returned, transport, feedback_file, _last_file_mtime>>

\* ------------------------------------------------------------------------
\* irds_consumer_example.py : start, stop and the while loop of the
\* background thread
\* ------------------------------------------------------------------------
StopIdle ==
    /\ _running = FALSE
    /\ stop_pc = "idle"
    /\ updates_at_stop = 0

\* ------------------------------------------------------------------------
\* irds_consumer_example.py : is_safe_to_proceed, get_adjusted_params
\* ------------------------------------------------------------------------
SafetyIdle == safety_result = None

\* a safety test on the stored modifiers, whatever their age
is_safe_to_proceed_raw(modifiers, last_update, missing_default, threshold, time) ==
    ~modifiers.should_stop /\ ~modifiers.should_pause

\* is_safe_to_proceed (lines 233-236): one get_modifiers call, then the
\* two flags of what it returned
is_safe_to_proceed(modifiers, last_update, missing_default, threshold, time) ==
    LET snapshot == GetModifiers(modifiers, last_update, missing_default, threshold, time)
    IN  ~snapshot.should_stop /\ ~snapshot.should_pause

\* get_adjusted_params (lines 238-262): one get_modifiers call; the base
\* values times its modifiers (in 1/10000) and the flag of the same snapshot
get_adjusted_params(base, modifiers, last_update, missing_default, threshold, time) ==
    LET snapshot == GetModifiers(modifiers, last_update, missing_default, threshold, time)
    IN  [speed |-> base.speed * snapshot.speed_modifier,
         amplitude |-> base.amplitude * snapshot.amplitude_modifier,
         force |-> base.force * snapshot.force_modifier,
         is_safe |-> ~snapshot.should_stop /\ ~snapshot.should_pause]

\* the base values a gesture passes
BaseParams == [speed : {0, 2}, amplitude : {1}, force : {3}]

CallIsSafe ==
    /\ safety_result' = [call |-> "is_safe_to_proceed",
                         value |-> is_safe_to_proceed(_modifiers, _last_update,
                                       default_on_missing, stale_threshold, now)]
    /\ UNCHANGED consumerVars

CallGetAdjustedParams(base) ==
    /\ safety_result' = [call |-> "get_adjusted_params", base |-> base,
                         value |-> get_adjusted_params(base, _modifiers, _last_update,
                                       default_on_missing, stale_threshold, now)]
    /\ UNCHANGED consumerVars

\* ------------------------------------------------------------------------
\* nachi_interface.py : NachiInterface
\* ------------------------------------------------------------------------
\* the interface receives at most MaxSends send_command calls
MaxSends == 3

NachiProtocols == {"FILE", "TCP_SOCKET", "ETHERNET_IP"}

NachiIdle ==
    /\ protocol = "TCP_SOCKET"
    /\ _connected = FALSE
    /\ _last_command = None
    /\ last_sent = None
    /\ send_result = None
    /\ nsends = 0

\* __init__ (lines 198-223)
InitNachi ==
    /\ protocol \in NachiProtocols
    /\ _connected = FALSE
    /\ _last_command = None
    /\ last_sent = None
    /\ send_result = None
    /\ nsends = 0

\* connect (lines 225-258): file mode is always connected, the socket
\* connects or fails, EtherNet/IP returns False
connect(reachable) ==
    /\ _connected' = IF protocol = "FILE" THEN TRUE
                     ELSE IF protocol = "TCP_SOCKET" THEN reachable
                     ELSE _connected
    /\ UNCHANGED <<protocol, _last_command, last_sent, send_result, nsends>>

\* disconnect (lines 260-269)
disconnect ==
    /\ _connected' = FALSE
    /\ UNCHANGED <<protocol, _last_command, last_sent, send_result, nsends>>

\* the commands handed to send_command
SendableCommands ==
    {translate(f, DefaultFloors[1], DefaultFloors[2], DefaultFloors[3], 1) :
        f \in {[speed_modifier |-> 10000], [speed_modifier |-> 5000],
               [should_stop |-> TRUE]}}

\* send_command (lines 281-293): _last_command after the call; the
\* assignment of line 286 comes before the write or the send
LastCommandAfter(connected, last, cmd, io_ok) ==
    IF connected THEN cmd ELSE last

\* send_command with _send_file / _send_socket (lines 271-314): io_ok says
\* whether the file write or the socket send succeeds
send_command(cmd, io_ok) ==
    /\ nsends < MaxSends
    /\ nsends' = nsends + 1
    /\ _last_command' = LastCommandAfter(_connected, _last_command, cmd, io_ok)
    /\ send_result' = [value |-> _connected /\ io_ok]
    /\ last_sent' = IF _connected /\ io_ok THEN cmd ELSE last_sent
    /\ UNCHANGED <<protocol, _connected>>

\* ------------------------------------------------------------------------
\* irds_interface.py : FeedbackPublisher.get_history
\* ------------------------------------------------------------------------
\* at most MaxKept signals are published and counts go up to MaxCount
MaxKept == 4

MaxCount == 5

HistoryIdle == got_history = None

\* seq[start:] of Python: a negative start counts from the end and is
\* clipped at the beginning, a start past the end gives the empty list
PySliceFrom(seq, start) ==
    LET from == IF start < 0 THEN Max2(Len(seq) + start, 0) ELSE Min2(start, Len(seq))
    IN  SubSeq(seq, from + 1, Len(seq))

\* get_history (lines 345-348): self._history[-count:]
get_history(history, count) == PySliceFrom(history, 0 - count)

\* publish, called by one thread at a time
publish_signal(ref) ==
    /\ Len(_history) < MaxKept
    /\ _history' = publish(_history, ref)
    /\ got_history' = None
    /\ UNCHANGED bridgeOnlyVars

CallGetHistory(count) ==
    /\ got_history' = [count |-> count, result |-> get_history(_history, count)]
    /\ UNCHANGED bridgeVars

\* ------------------------------------------------------------------------
\* irds_bridge.py : the fusion loop; irds_consumer_example.py : a consumer
\* polling the file that the bridge's publisher writes
\* ------------------------------------------------------------------------
PipelineIdle ==
    /\ stamps = <<>>
    /\ stopped_at = 0
    /\ fused_at = 0

\* the deliveries of the sensors and the fusion intervals that are explored
MaxDeliveries == 2

MaxIntervals == 4

\* the readings the two sensors deliver before they stop
PipelinePiezoReadings == [level : {"HIGH"}, percent : {0}]

PipelineFaceReadings == [level : {"MODERATE"}, pain_score : {0}, face_detected : {TRUE}]

\* to_dict (lines 69-72) of a signal whose timestamp field is stamp
WireOf(signal, stamp) ==
    [timestamp |-> stamp, pain_level |-> signal.pain_level,
     pain_level_name |-> signal.pain_level_name, pain_score |-> signal.pain_score,
     source |-> signal.source, confidence |-> signal.confidence,
     speed_modifier |-> signal.speed_modifier,
     amplitude_modifier |-> signal.amplitude_modifier,
     force_modifier |-> signal.force_modifier,
     should_pause |-> signal.should_pause, should_stop |-> signal.should_stop]

\* a sensor delivers a reading: update_piezo / update_face with fusion
\* enabled store the signal, stamped by create_feedback with the clock
deliver_piezo(reading) ==
    /\ stopped_at = 0
    /\ ncalls < MaxDeliveries
    /\ update_piezo(reading)
    /\ stamps' = Append(stamps, now)
    /\ UNCHANGED <<consumerVars, receiveVars, stopped_at, fused_at>>

deliver_face(reading) ==
    /\ stopped_at = 0
    /\ ncalls < MaxDeliveries
    /\ update_face(reading)
    /\ stamps' = Append(stamps, now)
    /\ UNCHANGED <<consumerVars, receiveVars, stopped_at, fused_at>>

\* both sensors stop delivering
sensors_stop ==
    /\ stopped_at = 0
    /\ stopped_at' = now
    /\ UNCHANGED <<bridgeVars, consumerVars, receiveVars, stamps, fused_at>>

\* one iteration of fusion_loop (lines 143-147), once per interval:
\* publish_fused fuses the stored signals (a lone input is relabelled and
\* keeps its timestamp, two inputs give a new signal stamped with the
\* clock) and the publisher appends it and writes it to the file
fusion_tick ==
    LET p == Deref(heap, _piezo_feedback)
        f == Deref(heap, _face_feedback)
        fused == fuse_feedback(p, f, bridge_weights[1], bridge_weights[2])
        ref == IF p = None /\ f # None THEN _face_feedback
               ELSE IF p # None /\ f = None THEN _piezo_feedback
               ELSE Len(heap) + 1
    IN  /\ fused_at < now
        /\ fused_at' = now
        /\ heap' = IF ref <= Len(heap) THEN [heap EXCEPT ![ref] = fused]
                   ELSE Append(heap, fused)
        /\ stamps' = IF ref <= Len(heap) THEN stamps ELSE Append(stamps, now)
        /\ _history' = publish(_history, ref)
        /\ feedback_file' = [exists |-> TRUE, mtime |-> now,
                             text |-> json_dumps(WireOf(fused, stamps'[ref]))]
        /\ UNCHANGED <<enable_fused, bridge_weights, _piezo_feedback, _face_feedback,
                       ncalls, consumerVars, transport, _last_file_mtime, loop_alive,
                       iterations, last_payload, stopped_at>>

\* one iteration of the consumer's _poll_file that finds the file changed
\* (lines 126-144)
poll_output ==
    /\ feedback_file.exists
    /\ feedback_file.mtime > _last_file_mtime
    /\ _last_file_mtime' = feedback_file.mtime
    /\ last_payload' = [read |-> TRUE, text |-> feedback_file.text]
    /\ HandleParsed(json_loads(feedback_file.text))
    /\ UNCHANGED <<default_on_missing, stale_threshold, _on_high_pain, _on_critical_pain,
                   now, returned, transport, feedback_file, iterations, bridgeVars,
                   pipelineVars>>

\* the clock advances by one fusion interval; the loop has made its tick of
\* this interval (time.sleep(interval), line 147) and the consumer, which
\* polls more often (line 135), has seen the file
interval_passes ==
    /\ now < MaxIntervals
    /\ fused_at = now
    /\ _last_file_mtime = feedback_file.mtime
    /\ Tick
    /\ UNCHANGED <<bridgeVars, receiveVars, pipelineVars>>

\* ------------------------------------------------------------------------
\* irds_bridge.py : start_fusion_loop, fusion_loop and stop
\* ------------------------------------------------------------------------
\* the ticks of the fusion loop that are explored
MaxLoopTicks == 2

\* the weights the bridge is built with: the defaults and a pair of sum 0
LoopWeights == {<<6, 4>>, <<0, 0>>}

FusionLoopIdle ==
    /\ bridge_running = FALSE
    /\ died_calls = 0

\* IRDSBridge.__init__ (line 93) with fusion enabled; the loop thread does
\* not exist yet
InitFusionLoop ==
    /\ enable_fused = TRUE
    /\ bridge_weights \in LoopWeights
    /\ heap = <<>>
    /\ _piezo_feedback = 0
    /\ _face_feedback = 0
    /\ _history = <<>>
    /\ ncalls = 0
    /\ bridge_lock = Free
    /\ bpc = [t \in BridgeThreads |-> IF t = "fusion" THEN "unstarted" ELSE "idle"]
    /\ blocal = [t \in BridgeThreads |-> NoCall]
    /\ unlocked_reads = {}
    /\ pairs_seen = {<<0, 0>>}
    /\ ticks_done = 0
    /\ bridge_log = <<>>
    /\ bridge_running = FALSE
    /\ died_calls = 0

\* start_fusion_loop (lines 134-150)
start_fusion_loop ==
    /\ bpc["fusion"] = "unstarted"
    /\ bridge_running' = TRUE
    /\ bpc' = [bpc EXCEPT !["fusion"] = "idle"]
    /\ UNCHANGED <<bridgeVars, bridge_lock, blocal, unlocked_reads, pairs_seen,
                   ticks_done, bridge_log, died_calls>>

\* one pass of "while self._running:" that finds the flag set and enters
\* publish_fused (lines 144-146, 123-129): fuse_feedback under the lock
loop_fuse ==
    LET p == Deref(heap, _piezo_feedback)
        f == Deref(heap, _face_feedback)
        fused == fuse_feedback(p, f, bridge_weights[1], bridge_weights[2])
        ref == IF p = None /\ f # None THEN _face_feedback
               ELSE IF p # None /\ f = None THEN _piezo_feedback
               ELSE Len(heap) + 1
    IN  /\ bpc["fusion"] = "idle"
        /\ bridge_running
        /\ enable_fused
        /\ ticks_done < MaxLoopTicks
        /\ bridge_lock = Free
        /\ bridge_lock' = "fusion"
        /\ bpc' = [bpc EXCEPT !["fusion"] = "unlock"]
        /\ IF "raised" \in DOMAIN fused
           THEN /\ heap' = heap
                /\ blocal' = [blocal EXCEPT !["fusion"] = [kind |-> "raised", made |-> 0,
                                                           sent |-> 0]]
           ELSE /\ heap' = IF ref <= Len(heap) THEN [heap EXCEPT ![ref] = fused]
                           ELSE Append(heap, fused)
                /\ blocal' = [blocal EXCEPT !["fusion"] = [kind |-> "fused", made |-> ref,
                                                           sent |-> ref]]
        /\ UNCHANGED <<enable_fused, bridge_weights, _piezo_feedback, _face_feedback,
                       _history, ncalls, unlocked_reads, pairs_seen, ticks_done,
                       bridge_log, fusionLoopVars>>

\* a pass of "while self._running:" that finds the flag cleared
loop_exit ==
    /\ bpc["fusion"] = "idle"
    /\ ~bridge_running
    /\ bpc' = [bpc EXCEPT !["fusion"] = "exited"]
    /\ UNCHANGED <<bridgeVars, bridge_lock, blocal, unlocked_reads, pairs_seen,
                   ticks_done, bridge_log, fusionLoopVars>>

\* IRDSBridge.stop (lines 152-155)
bridge_stop ==
    /\ bridge_running
    /\ bridge_running' = FALSE
    /\ UNCHANGED <<bridgeVars, bridgeThreadVars, died_calls>>

\* leaving "with self._lock:", in update_piezo, update_face or publish_fused
leave_bridge_lock(t) ==
    /\ release_bridge_lock(t)
    /\ died_calls' = IF blocal[t].kind = "raised" THEN ncalls ELSE died_calls
    /\ UNCHANGED bridge_running

\* ------------------------------------------------------------------------
\* run.py : FeedbackController
\* ------------------------------------------------------------------------
\* the process_reading calls that are explored
MaxReadings == 10

\* the level strings of the readings: PressureReading.level is the 'level'
\* value of the sensor's JSON line (piezo_reader.py, line 215), any string
ControllerLevels == {"NONE", "LIGHT", "MODERATE", "HIGH", "CRITICAL", "none", "UNKNOWN"}

ControllerIdle ==
    /\ arm_speed = 100
    /\ arm_active = TRUE
    /\ last_level = ""
    /\ nreadings = 0

\* FeedbackController.__init__ (lines 95-99)
InitController ==
    /\ arm_speed = 100
    /\ arm_active = TRUE
    /\ last_level = ""
    /\ nreadings = 0

\* _emergency_stop (lines 117-124): <<arm_speed, arm_active>> afterwards
_emergency_stop(speed, active) ==
    IF active THEN <<0, FALSE>> ELSE <<speed, active>>

\* _reduce_speed (lines 126-131)
_reduce_speed(speed, active, target_speed) ==
    IF speed > target_speed THEN <<target_speed, TRUE>> ELSE <<speed, active>>

\* _normal_operation (lines 133-138)
_normal_operation(speed, active) == <<100, TRUE>>

\* the branch process_reading takes (lines 106-115): every level string
\* other than the four named ones takes the else branch
ArmAfter(speed, active, level) ==
    IF level = "CRITICAL" THEN _emergency_stop(speed, active)
    ELSE IF level = "HIGH" THEN _reduce_speed(speed, active, 20)
    ELSE IF level = "MODERATE" THEN _reduce_speed(speed, active, 50)
    ELSE IF level = "LIGHT" THEN _reduce_speed(speed, active, 80)
    ELSE _normal_operation(speed, active)

process_reading(level) ==
    /\ nreadings < MaxReadings
    /\ nreadings' = nreadings + 1
    /\ last_level' = level
    /\ arm_speed' = ArmAfter(arm_speed, arm_active, level)[1]
    /\ arm_active' = ArmAfter(arm_speed, arm_active, level)[2]

\* the groups added last, for the specifications that use only some of them
LateIdleBut(own) ==
    /\ IF "stop" \in own THEN TRUE ELSE StopIdle
    /\ IF "safety" \in own THEN TRUE ELSE SafetyIdle
    /\ IF "nachi" \in own THEN TRUE ELSE NachiIdle
    /\ IF "history" \in own THEN TRUE ELSE HistoryIdle
    /\ IF "pipeline" \in own THEN TRUE ELSE PipelineIdle
    /\ IF "fusionloop" \in own THEN TRUE ELSE FusionLoopIdle
    /\ IF "controller" \in own THEN TRUE ELSE ControllerIdle

LateUnchangedBut(own) ==
    /\ IF "stop" \in own THEN TRUE ELSE UNCHANGED stopVars
    /\ IF "safety" \in own THEN TRUE ELSE UNCHANGED safetyVars
    /\ IF "nachi" \in own THEN TRUE ELSE UNCHANGED nachiVars
    /\ IF "history" \in own THEN TRUE ELSE UNCHANGED historyVars
    /\ IF "pipeline" \in own THEN TRUE ELSE UNCHANGED pipelineVars
    /\ IF "fusionloop" \in own THEN TRUE ELSE UNCHANGED fusionLoopVars
    /\ IF "controller" \in own THEN TRUE ELSE UNCHANGED controllerVars

LateIdle == LateIdleBut({})

\* __init__ (lines 88-89): not running, no thread
InitStop ==
    /\ _running = FALSE
    /\ stop_pc = "idle"
    /\ updates_at_stop = 0
    /\ _lock = Free
    /\ pc = [t \in Threads |-> IF t = "poll" THEN "unstarted" ELSE "idle"]
    /\ stack = [t \in Threads |-> <<>>]
    /\ upd_data = None

\* start() (lines 105-116): the flag is set and the thread begins at the
\* test of its while loop
start ==
    /\ pc["poll"] = "unstarted"
    /\ stop_pc = "idle"
    /\ _running' = TRUE
    /\ pc' = [pc EXCEPT !["poll"] = "idle"]
    /\ UNCHANGED <<consumerVars, _lock, stack, upd_data, stop_pc, updates_at_stop>>

\* "while self._running:" (lines 126, 156): the loop goes on to receive, or
\* leaves the loop and the thread ends
loop_test ==
    /\ pc["poll"] = "idle"
    /\ pc' = [pc EXCEPT !["poll"] = IF _running THEN "receive" ELSE "exited"]
    /\ UNCHANGED <<consumerVars, _lock, stack, upd_data, stopVars>>

\* an iteration that applies nothing: the file is unchanged, recvfrom times
\* out, or the payload is malformed; back to the while test
receive_nothing ==
    /\ pc["poll"] = "receive"
    /\ pc' = [pc EXCEPT !["poll"] = "idle"]
    /\ UNCHANGED <<consumerVars, _lock, stack, upd_data, stopVars>>

\* an iteration that has read a payload and calls _update_modifiers
receive_update(data) ==
    /\ pc["poll"] = "receive"
    /\ n_updates < MaxThreadUpdates
    /\ pc' = [pc EXCEPT !["poll"] = "wait_lock"]
    /\ stack' = [stack EXCEPT !["poll"] = <<"update">>]
    /\ upd_data' = data
    /\ UNCHANGED <<consumerVars, _lock, stopVars>>

\* stop() (lines 118-120): the flag is cleared; with a thread the caller
\* goes on to join it, without one stop() returns
stop ==
    /\ stop_pc = "idle"
    /\ _running' = FALSE
    /\ updates_at_stop' = n_updates
    /\ stop_pc' = IF pc["poll"] = "unstarted" THEN "returned" ELSE "join"
    /\ UNCHANGED <<consumerVars, threadVars>>

\* "self._thread.join(timeout=2.0)" (line 122) returns when the thread has
\* ended or when the two seconds have passed, whichever comes first
join_returns ==
    /\ stop_pc = "join"
    /\ stop_pc' = "returned"
    /\ UNCHANGED <<consumerVars, threadVars, _running, updates_at_stop>>

\* ------------------------------------------------------------------------
\* Specifications
\* ------------------------------------------------------------------------
InitSpecFuse == InitFuse /\ BridgeIdle /\ ConsumerIdle /\ ThreadsIdle /\ CallsIdle /\ PublisherIdle /\ FanoutIdle /\ BridgeThreadsIdle /\ ReceiveIdle /\ LateIdle

NextFuse == CallFuse /\ UNCHANGED <<bridgeVars, consumerVars, threadVars, callVars, publisherVars, fanoutVars, bridgeThreadVars, receiveVars, lateVars>>

SpecFuse == InitSpecFuse /\ [][NextFuse]_vars

InitSpecBridge == InitBridge /\ FuseIdle /\ ConsumerIdle /\ ThreadsIdle /\ CallsIdle /\ PublisherIdle /\ FanoutIdle /\ BridgeThreadsIdle /\ ReceiveIdle /\ LateIdle

NextBridge ==
    \/ \E reading \in PiezoReadings : update_piezo(reading) /\ UNCHANGED <<fuseVars, consumerVars, threadVars, callVars, publisherVars, fanoutVars, bridgeThreadVars, receiveVars, lateVars>>
    \/ \E reading \in FaceReadings : update_face(reading) /\ UNCHANGED <<fuseVars, consumerVars, threadVars, callVars, publisherVars, fanoutVars, bridgeThreadVars, receiveVars, lateVars>>
    \/ publish_fused /\ UNCHANGED <<fuseVars, consumerVars, threadVars, callVars, publisherVars, fanoutVars, bridgeThreadVars, receiveVars, lateVars>>

SpecBridge == InitSpecBridge /\ [][NextBridge]_vars

InitSpecConsumer == InitConsumer /\ FuseIdle /\ BridgeIdle /\ ThreadsIdle /\ CallsIdle /\ PublisherIdle /\ FanoutIdle /\ BridgeThreadsIdle /\ ReceiveIdle /\ LateIdle

NextConsumer ==
    \/ set_high_pain_callback("plain") /\ UNCHANGED <<fuseVars, bridgeVars, threadVars, callVars, publisherVars, fanoutVars, bridgeThreadVars, receiveVars, lateVars>>
    \/ set_critical_pain_callback("plain") /\ UNCHANGED <<fuseVars, bridgeVars, threadVars, callVars, publisherVars, fanoutVars, bridgeThreadVars, receiveVars, lateVars>>
    \/ \E data \in Payloads(now) : _update_modifiers(data) /\ UNCHANGED <<fuseVars, bridgeVars, threadVars, callVars, publisherVars, fanoutVars, bridgeThreadVars, receiveVars, lateVars>>
    \/ CallGetModifiers /\ UNCHANGED <<fuseVars, bridgeVars, threadVars, callVars, publisherVars, fanoutVars, bridgeThreadVars, receiveVars, lateVars>>
    \/ Tick /\ UNCHANGED <<fuseVars, bridgeVars, threadVars, callVars, publisherVars, fanoutVars, bridgeThreadVars, receiveVars, lateVars>>

SpecConsumer == InitSpecConsumer /\ [][NextConsumer]_vars

\* the scripted consumer: a fresh consumer with both callbacks registered is
\* fed the script, then any levels, while time passes and the gesture loop reads
InitSpecScript ==
    /\ InitConsumerWith(1..MaxThreshold, "plain", "plain")
    /\ FuseIdle /\ BridgeIdle /\ ThreadsIdle /\ CallsIdle /\ PublisherIdle /\ FanoutIdle /\ BridgeThreadsIdle /\ ReceiveIdle /\ LateIdle

NextScript ==
    \/ \E data \in Payloads(now) : ScriptedUpdate(data) /\ UNCHANGED <<fuseVars, bridgeVars, threadVars, callVars, publisherVars, fanoutVars, bridgeThreadVars, receiveVars, lateVars>>
    \/ CallGetModifiers /\ UNCHANGED <<fuseVars, bridgeVars, threadVars, callVars, publisherVars, fanoutVars, bridgeThreadVars, receiveVars, lateVars>>
    \/ Tick /\ UNCHANGED <<fuseVars, bridgeVars, threadVars, callVars, publisherVars, fanoutVars, bridgeThreadVars, receiveVars, lateVars>>

SpecScript == InitSpecScript /\ [][NextScript]_vars

\* the consumer with its poll thread and the gesture thread
InitSpecThreads ==
    /\ InitConsumerWith({2}, NoCallback, NoCallback)
    /\ FuseIdle /\ BridgeIdle /\ ThreadsIdle /\ CallsIdle /\ PublisherIdle /\ FanoutIdle /\ BridgeThreadsIdle /\ ReceiveIdle /\ LateIdle

OtherUnchanged == UNCHANGED <<fuseVars, bridgeVars, callVars, publisherVars, fanoutVars, bridgeThreadVars, receiveVars, lateVars>>

NextThreads ==
    \/ \E cb \in CallbackKinds :
          set_high_pain_callback(cb) /\ UNCHANGED <<fuseVars, bridgeVars, threadVars, callVars, publisherVars, fanoutVars, bridgeThreadVars, receiveVars, lateVars>>
    \/ \E cb \in CallbackKinds :
          set_critical_pain_callback(cb) /\ UNCHANGED <<fuseVars, bridgeVars, threadVars, callVars, publisherVars, fanoutVars, bridgeThreadVars, receiveVars, lateVars>>
    \/ \E data \in ThreadPayloads(now) : begin_update(data) /\ OtherUnchanged
    \/ begin_get /\ OtherUnchanged
    \/ \E t \in Threads : acquire(t) /\ OtherUnchanged
    \/ update_body("poll") /\ OtherUnchanged
    \/ \E t \in Threads : get_body(t) /\ OtherUnchanged
    \/ Tick /\ UNCHANGED <<fuseVars, bridgeVars, threadVars, callVars, publisherVars, fanoutVars, bridgeThreadVars, receiveVars, lateVars>>

SpecThreads == InitSpecThreads /\ [][NextThreads]_vars

\* one call of translate on a freshly built translator
InitSpecTranslate ==
    /\ InitTranslator /\ CodecIdle /\ MapperIdle /\ AdapterIdle
    /\ FuseIdle /\ BridgeIdle /\ ConsumerIdle /\ ThreadsIdle /\ PublisherIdle /\ FanoutIdle /\ BridgeThreadsIdle /\ ReceiveIdle /\ LateIdle

NextTranslate ==
    CallTranslate /\ UNCHANGED <<fuseVars, bridgeVars, consumerVars, threadVars,
                                 codecVars, mapperVars, adapterVars, publisherVars, fanoutVars, bridgeThreadVars, receiveVars, lateVars>>

SpecTranslate == InitSpecTranslate /\ [][NextTranslate]_vars

\* a command is encoded, the buffer possibly damaged, and decoded
InitSpecCodec ==
    /\ InitCodec /\ TranslatorIdle /\ MapperIdle /\ AdapterIdle
    /\ FuseIdle /\ BridgeIdle /\ ConsumerIdle /\ ThreadsIdle /\ PublisherIdle /\ FanoutIdle /\ BridgeThreadsIdle /\ ReceiveIdle /\ LateIdle

CodecOthersUnchanged ==
    UNCHANGED <<fuseVars, bridgeVars, consumerVars, threadVars,
                translatorVars, mapperVars, adapterVars, publisherVars, fanoutVars, bridgeThreadVars, receiveVars, lateVars>>

NextCodec ==
    \/ CallToBytes /\ CodecOthersUnchanged
    \/ \E delta \in Damages : Damage(delta) /\ CodecOthersUnchanged
    \/ CallFromBytes /\ CodecOthersUnchanged

SpecCodec == InitSpecCodec /\ [][NextCodec]_vars

\* two calls of get_modifiers on any levels and scores
InitSpecMapper ==
    /\ InitMapper /\ TranslatorIdle /\ CodecIdle /\ AdapterIdle
    /\ FuseIdle /\ BridgeIdle /\ ConsumerIdle /\ ThreadsIdle /\ PublisherIdle /\ FanoutIdle /\ BridgeThreadsIdle /\ ReceiveIdle /\ LateIdle

NextMapper ==
    CallGetModifiersTwice /\ UNCHANGED <<fuseVars, bridgeVars, consumerVars, threadVars,
                                         translatorVars, codecVars, adapterVars, publisherVars, fanoutVars, bridgeThreadVars, receiveVars, lateVars>>

SpecMapper == InitSpecMapper /\ [][NextMapper]_vars

\* one sensor reading through its adapter
InitSpecAdapter ==
    /\ InitAdapter /\ TranslatorIdle /\ CodecIdle /\ MapperIdle
    /\ FuseIdle /\ BridgeIdle /\ ConsumerIdle /\ ThreadsIdle /\ PublisherIdle /\ FanoutIdle /\ BridgeThreadsIdle /\ ReceiveIdle /\ LateIdle

AdapterOthersUnchanged ==
    UNCHANGED <<fuseVars, bridgeVars, consumerVars, threadVars,
                translatorVars, codecVars, mapperVars, publisherVars, fanoutVars, bridgeThreadVars, receiveVars, lateVars>>

NextAdapter ==
    \/ CallPiezoToFeedback /\ AdapterOthersUnchanged
    \/ CallFaceToFeedback /\ AdapterOthersUnchanged

SpecAdapter == InitSpecAdapter /\ [][NextAdapter]_vars

\* a publisher shared by two publishing threads
InitSpecPublisher ==
    /\ InitPublisher /\ enable_fused = TRUE /\ bridge_weights = <<6, 4>> /\ heap = <<>>
    /\ _piezo_feedback = 0 /\ _face_feedback = 0 /\ ncalls = 0
    /\ FuseIdle /\ ConsumerIdle /\ ThreadsIdle /\ CallsIdle /\ FanoutIdle /\ BridgeThreadsIdle /\ ReceiveIdle /\ LateIdle

PublisherOthersUnchanged ==
    UNCHANGED <<fuseVars, bridgeOnlyVars, consumerVars, threadVars, callVars, fanoutVars, bridgeThreadVars, receiveVars, lateVars>>

NextPublisher ==
    \/ \E t \in PubThreads : begin_publish(t) /\ PublisherOthersUnchanged
    \/ \E t \in PubThreads : publish_append(t) /\ PublisherOthersUnchanged
    \/ \E t \in PubThreads : publish_trim(t) /\ PublisherOthersUnchanged
    \/ get_latest /\ PublisherOthersUnchanged

SpecPublisher == InitSpecPublisher /\ [][NextPublisher]_vars

\* the same publisher with a file sink, and a reader of the primary file
InitSpecFileSink ==
    /\ InitPublisherWith(TRUE) /\ enable_fused = TRUE /\ bridge_weights = <<6, 4>>
    /\ heap = <<>> /\ _piezo_feedback = 0 /\ _face_feedback = 0 /\ ncalls = 0
    /\ FuseIdle /\ ConsumerIdle /\ ThreadsIdle /\ CallsIdle /\ FanoutIdle /\ BridgeThreadsIdle /\ ReceiveIdle /\ LateIdle

NextFileSink ==
    \/ \E t \in PubThreads : begin_publish(t) /\ PublisherOthersUnchanged
    \/ \E t \in PubThreads : publish_append(t) /\ PublisherOthersUnchanged
    \/ \E t \in PubThreads : publish_trim(t) /\ PublisherOthersUnchanged
    \/ \E t \in PubThreads : open_output_file(t) /\ PublisherOthersUnchanged
    \/ \E t \in PubThreads : write_output_file(t) /\ PublisherOthersUnchanged
    \/ \E t \in PubThreads : open_history_file(t) /\ PublisherOthersUnchanged
    \/ \E t \in PubThreads : write_history_file(t) /\ PublisherOthersUnchanged
    \/ get_latest /\ PublisherOthersUnchanged
    \/ read_output_file /\ PublisherOthersUnchanged

SpecFileSink == InitSpecFileSink /\ [][NextFileSink]_vars

\* one publish call with listeners registered
InitSpecFanout ==
    /\ InitFanout /\ FuseIdle /\ BridgeIdle /\ ConsumerIdle /\ ThreadsIdle
    /\ CallsIdle /\ PublisherIdle /\ BridgeThreadsIdle /\ ReceiveIdle /\ LateIdle

FanoutOthersUnchanged ==
    UNCHANGED <<fuseVars, bridgeVars, consumerVars, threadVars, callVars, publisherVars, bridgeThreadVars, receiveVars, lateVars>>

NextFanout ==
    \/ attempt_sinks /\ FanoutOthersUnchanged
    \/ invoke_next /\ FanoutOthersUnchanged
    \/ end_fanout /\ FanoutOthersUnchanged

SpecFanout == InitSpecFanout /\ [][NextFanout]_vars

\* the bridge called by two sensor threads and the fusion thread
InitSpecBridgeThreads ==
    /\ InitBridge /\ InitBridgeThreads /\ FuseIdle /\ ConsumerIdle /\ ThreadsIdle
    /\ CallsIdle /\ PublisherIdle /\ FanoutIdle /\ ReceiveIdle /\ LateIdle

BridgeThreadsOthersUnchanged ==
    UNCHANGED <<fuseVars, consumerVars, threadVars, callVars, publisherVars, fanoutVars,
                receiveVars, lateVars>>

NextBridgeThreads ==
    \/ \E t \in SensorThreads, reading \in ThreadPiezoReadings :
          store_piezo(t, reading) /\ BridgeThreadsOthersUnchanged
    \/ \E t \in SensorThreads, reading \in ThreadFaceReadings :
          store_face(t, reading) /\ BridgeThreadsOthersUnchanged
    \/ \E t \in BridgeThreads : release_bridge_lock(t) /\ BridgeThreadsOthersUnchanged
    \/ \E t \in SensorThreads : read_stored(t) /\ BridgeThreadsOthersUnchanged
    \/ fuse_stored("fusion") /\ BridgeThreadsOthersUnchanged
    \/ \E t \in BridgeThreads : publish_and_return(t) /\ BridgeThreadsOthersUnchanged

SpecBridgeThreads == InitSpecBridgeThreads /\ [][NextBridgeThreads]_vars

\* the consumer with its background loop, fed well-formed and malformed
\* texts while time passes and the gesture loop reads the modifiers
InitSpecReceive ==
    /\ InitConsumerWith({2}, "plain", "plain") /\ InitReceive
    /\ FuseIdle /\ BridgeIdle /\ ThreadsIdle /\ CallsIdle /\ PublisherIdle /\ FanoutIdle
    /\ BridgeThreadsIdle /\ LateIdle

ReceiveOthersUnchanged ==
    UNCHANGED <<fuseVars, bridgeVars, threadVars, callVars, publisherVars, fanoutVars,
                bridgeThreadVars, lateVars>>

NextReceive ==
    \/ \E text \in Texts : write_feedback_file(text) /\ ReceiveOthersUnchanged
    \/ _poll_file /\ ReceiveOthersUnchanged
    \/ \E datagram \in Datagrams : _listen_socket(datagram) /\ ReceiveOthersUnchanged
    \/ CallGetModifiers /\ UNCHANGED receiveVars /\ ReceiveOthersUnchanged
    \/ Tick /\ UNCHANGED receiveVars /\ ReceiveOthersUnchanged

SpecReceive == InitSpecReceive /\ [][NextReceive]_vars

\* the consumer started and stopped while its loop receives payloads; the
\* callbacks are plain ones or ones that ask is_safe_to_proceed
InitSpecStop ==
    /\ \E cb \in CallbackKinds \cup {NoCallback} : InitConsumerWith({2}, cb, cb)
    /\ InitStop
    /\ FuseIdle /\ BridgeIdle /\ CallsIdle /\ PublisherIdle /\ FanoutIdle
    /\ BridgeThreadsIdle /\ ReceiveIdle /\ LateIdleBut({"stop"})

StopOthersUnchanged ==
    /\ UNCHANGED <<fuseVars, bridgeVars, callVars, publisherVars, fanoutVars,
                   bridgeThreadVars, receiveVars>>
    /\ LateUnchangedBut({"stop"})

\* the steps of the background thread; a get_modifiers call made by a
\* callback waits in acquire for the lock that its own thread holds
PollStep ==
    \/ loop_test
    \/ receive_nothing
    \/ \E data \in ThreadPayloads(1) : receive_update(data)
    \/ acquire("poll") /\ UNCHANGED stopVars
    \/ update_body("poll") /\ UNCHANGED stopVars

NextStop ==
    \/ start /\ StopOthersUnchanged
    \/ PollStep /\ StopOthersUnchanged
    \/ stop /\ StopOthersUnchanged
    \/ join_returns /\ StopOthersUnchanged

SpecStop == InitSpecStop /\ [][NextStop]_vars

\* the consumer receiving updates while time passes and the gesture loop
\* asks for the modifiers, the safety flag and the adjusted parameters
InitSpecSafety ==
    /\ InitConsumer /\ SafetyIdle
    /\ FuseIdle /\ BridgeIdle /\ ThreadsIdle /\ CallsIdle /\ PublisherIdle /\ FanoutIdle
    /\ BridgeThreadsIdle /\ ReceiveIdle /\ LateIdleBut({"safety"})

SafetyOthersUnchanged ==
    /\ UNCHANGED <<fuseVars, bridgeVars, threadVars, callVars, publisherVars, fanoutVars,
                   bridgeThreadVars, receiveVars>>
    /\ LateUnchangedBut({"safety"})

NextSafety ==
    \/ \E data \in ThreadPayloads(1) :
          _update_modifiers(data) /\ safety_result' = None /\ SafetyOthersUnchanged
    \/ CallGetModifiers /\ UNCHANGED safety_result /\ SafetyOthersUnchanged
    \/ CallIsSafe /\ SafetyOthersUnchanged
    \/ \E base \in BaseParams : CallGetAdjustedParams(base) /\ SafetyOthersUnchanged
    \/ Tick /\ safety_result' = None /\ SafetyOthersUnchanged

SpecSafety == InitSpecSafety /\ [][NextSafety]_vars

\* a NachiInterface that is connected, disconnected and sent commands
InitSpecNachi ==
    /\ InitNachi
    /\ FuseIdle /\ BridgeIdle /\ ConsumerIdle /\ ThreadsIdle /\ CallsIdle /\ PublisherIdle
    /\ FanoutIdle /\ BridgeThreadsIdle /\ ReceiveIdle /\ LateIdleBut({"nachi"})

NachiOthersUnchanged ==
    /\ UNCHANGED <<fuseVars, bridgeVars, consumerVars, threadVars, callVars, publisherVars,
                   fanoutVars, bridgeThreadVars, receiveVars>>
    /\ LateUnchangedBut({"nachi"})

NextNachi ==
    \/ \E reachable \in BOOLEAN : connect(reachable) /\ NachiOthersUnchanged
    \/ disconnect /\ NachiOthersUnchanged
    \/ \E cmd \in SendableCommands, io_ok \in BOOLEAN :
          send_command(cmd, io_ok) /\ NachiOthersUnchanged

SpecNachi == InitSpecNachi /\ [][NextNachi]_vars

\* a publisher whose history is read with get_history between publishes
InitSpecHistory ==
    /\ BridgeIdle /\ HistoryIdle
    /\ FuseIdle /\ ConsumerIdle /\ ThreadsIdle /\ CallsIdle /\ PublisherIdle
    /\ FanoutIdle /\ BridgeThreadsIdle /\ ReceiveIdle /\ LateIdleBut({"history"})

HistoryOthersUnchanged ==
    /\ UNCHANGED <<fuseVars, consumerVars, threadVars, callVars, publisherVars,
                   fanoutVars, bridgeThreadVars, receiveVars>>
    /\ LateUnchangedBut({"history"})

NextHistory ==
    \/ \E ref \in 1..2 : publish_signal(ref) /\ HistoryOthersUnchanged
    \/ \E count \in 0..MaxCount : CallGetHistory(count) /\ HistoryOthersUnchanged

SpecHistory == InitSpecHistory /\ [][NextHistory]_vars

\* the bridge with fusion enabled and its loop running, the sensors that
\* deliver and then stop, and a consumer polling the published file
InitSpecPipeline ==
    /\ InitBridge /\ enable_fused
    /\ InitConsumerWith({1, 2}, NoCallback, NoCallback)
    /\ InitReceive /\ transport = "file"
    /\ PipelineIdle
    /\ FuseIdle /\ ThreadsIdle /\ CallsIdle /\ PublisherIdle /\ FanoutIdle
    /\ BridgeThreadsIdle /\ LateIdleBut({"pipeline"})

PipelineOthersUnchanged ==
    /\ UNCHANGED <<fuseVars, threadVars, callVars, publisherVars, fanoutVars,
                   bridgeThreadVars>>
    /\ LateUnchangedBut({"pipeline"})

NextPipeline ==
    \/ \E reading \in PipelinePiezoReadings : deliver_piezo(reading) /\ PipelineOthersUnchanged
    \/ \E reading \in PipelineFaceReadings : deliver_face(reading) /\ PipelineOthersUnchanged
    \/ sensors_stop /\ PipelineOthersUnchanged
    \/ fusion_tick /\ PipelineOthersUnchanged
    \/ poll_output /\ PipelineOthersUnchanged
    \/ CallGetModifiers /\ UNCHANGED <<bridgeVars, receiveVars, pipelineVars>>
          /\ PipelineOthersUnchanged
    \/ interval_passes /\ PipelineOthersUnchanged

SpecPipeline == InitSpecPipeline /\ [][NextPipeline]_vars

\* well-formed objects that omit fields: the empty object, objects with one
\* or two fields, and a whole signal for comparison
PartialPayloads ==
    {<<>>, [pain_level |-> 3], [should_stop |-> TRUE], [speed_modifier |-> 3000],
     [should_pause |-> TRUE, force_modifier |-> 2000], WirePayload(4, 0, 1)}

\* the objects handed to the translator, built with the default floors or
\* with a force floor above 100
PartialFeedbacks == {<<>>, [should_stop |-> TRUE], [speed_modifier |-> 3000]}

DefaultsFloorChoices == {DefaultFloors, <<20, 5, 101>>}

\* a consumer and a translator are each handed objects that omit fields
InitSpecDefaults ==
    /\ InitConsumer
    /\ irds_feedback \in PartialFeedbacks
    /\ floors \in DefaultsFloorChoices
    /\ nachi_cmd = None
    /\ CodecIdle /\ MapperIdle /\ AdapterIdle
    /\ FuseIdle /\ BridgeIdle /\ ThreadsIdle /\ PublisherIdle /\ FanoutIdle
    /\ BridgeThreadsIdle /\ ReceiveIdle /\ LateIdle

DefaultsOthersUnchanged ==
    UNCHANGED <<fuseVars, bridgeVars, threadVars, codecVars, mapperVars, adapterVars,
                publisherVars, fanoutVars, bridgeThreadVars, receiveVars, lateVars>>

NextDefaults ==
    \/ \E data \in PartialPayloads : _update_modifiers(data)
          /\ UNCHANGED translatorVars /\ DefaultsOthersUnchanged
    \/ CallGetModifiers /\ UNCHANGED translatorVars /\ DefaultsOthersUnchanged
    \/ Tick /\ UNCHANGED translatorVars /\ DefaultsOthersUnchanged
    \/ CallTranslate /\ UNCHANGED consumerVars /\ DefaultsOthersUnchanged

SpecDefaults == InitSpecDefaults /\ [][NextDefaults]_vars

\* the bridge with its fusion loop as a thread beside the sensor threads
InitSpecFusionLoop ==
    /\ InitFusionLoop
    /\ FuseIdle /\ ConsumerIdle /\ ThreadsIdle /\ CallsIdle /\ PublisherIdle
    /\ FanoutIdle /\ ReceiveIdle /\ LateIdleBut({"fusionloop"})

FusionLoopOthersUnchanged ==
    /\ UNCHANGED <<fuseVars, consumerVars, threadVars, callVars, publisherVars,
                   fanoutVars, receiveVars>>
    /\ LateUnchangedBut({"fusionloop"})

NextFusionLoop ==
    \/ start_fusion_loop /\ FusionLoopOthersUnchanged
    \/ \E t \in SensorThreads, reading \in ThreadPiezoReadings :
          store_piezo(t, reading) /\ UNCHANGED fusionLoopVars /\ FusionLoopOthersUnchanged
    \/ \E t \in SensorThreads, reading \in ThreadFaceReadings :
          store_face(t, reading) /\ UNCHANGED fusionLoopVars /\ FusionLoopOthersUnchanged
    \/ \E t \in BridgeThreads : leave_bridge_lock(t) /\ FusionLoopOthersUnchanged
    \/ loop_fuse /\ FusionLoopOthersUnchanged
    \/ publish_and_return("fusion") /\ UNCHANGED fusionLoopVars /\ FusionLoopOthersUnchanged
    \/ loop_exit /\ FusionLoopOthersUnchanged
    \/ bridge_stop /\ FusionLoopOthersUnchanged

SpecFusionLoop == InitSpecFusionLoop /\ [][NextFusionLoop]_vars

\* the standalone controller fed a sequence of readings
InitSpecController ==
    /\ InitController
    /\ FuseIdle /\ BridgeIdle /\ ConsumerIdle /\ ThreadsIdle /\ CallsIdle
    /\ PublisherIdle /\ FanoutIdle /\ BridgeThreadsIdle /\ ReceiveIdle
    /\ LateIdleBut({"controller"})

ControllerOthersUnchanged ==
    /\ UNCHANGED <<fuseVars, bridgeVars, consumerVars, threadVars, callVars,
                   publisherVars, fanoutVars, bridgeThreadVars, receiveVars>>
    /\ LateUnchangedBut({"controller"})

NextController ==
    \E level \in ControllerLevels : process_reading(level) /\ ControllerOthersUnchanged

SpecController == InitSpecController /\ [][NextController]_vars

\* the scheduler runs the background thread whenever it can take a step,
\* and the join of stop() ends
SpecStopFair ==
    /\ SpecStop
    /\ WF_vars(PollStep /\ StopOthersUnchanged)
    /\ WF_vars(join_returns /\ StopOthersUnchanged)

\* ------------------------------------------------------------------------
\* Properties
\* ------------------------------------------------------------------------
\* fuse_feedback was called with both signals present and did not raise
FusedBoth ==
    /\ fuse_result # None
    /\ arg_piezo # None
    /\ arg_face # None
    /\ arg_weights[1] + arg_weights[2] # 0

\* C1: for two present inputs and weights with non-zero sum, the fused
\* pain_level is the maximum of the two input levels, hence never lower than
\* either input's level
C1_FusedLevelIsMax ==
    FusedBoth =>
        /\ "pain_level" \in DOMAIN fuse_result
        /\ fuse_result.pain_level =
              (IF arg_piezo.pain_level >= arg_face.pain_level
               THEN arg_piezo.pain_level ELSE arg_face.pain_level)
        /\ fuse_result.pain_level >= arg_piezo.pain_level
        /\ fuse_result.pain_level >= arg_face.pain_level

C1_Witness ==
    /\ FusedBoth
    /\ arg_piezo.pain_level = 1
    /\ arg_face.pain_level = 3

\* the smaller of two modifiers
Lesser(x, y) == IF x < y THEN x ELSE y

\* C2: for two present inputs the fused speed, amplitude and force modifiers
\* are the element-wise minima and the fused flags are the disjunctions, so
\* fusion never grants more than the more restrictive input
C2_FusedModifiersAreMin ==
    FusedBoth =>
        /\ fuse_result.speed_modifier =
              Lesser(arg_piezo.speed_modifier, arg_face.speed_modifier)
        /\ fuse_result.amplitude_modifier =
              Lesser(arg_piezo.amplitude_modifier, arg_face.amplitude_modifier)
        /\ fuse_result.force_modifier =
              Lesser(arg_piezo.force_modifier, arg_face.force_modifier)
        /\ fuse_result.should_pause = (arg_piezo.should_pause \/ arg_face.should_pause)
        /\ fuse_result.should_stop = (arg_piezo.should_stop \/ arg_face.should_stop)

C2_Witness ==
    /\ FusedBoth
    /\ arg_piezo.speed_modifier < arg_face.speed_modifier
    /\ arg_piezo.amplitude_modifier > arg_face.amplitude_modifier
    /\ arg_piezo.should_pause /\ ~arg_face.should_pause
    /\ ~arg_piezo.should_stop /\ arg_face.should_stop

\* the signals in the publisher's history
Published == {heap[_history[i]] : i \in 1..Len(_history)}

\* the signals published as the fusion of two stored signals
PublishedTwoInputFusions ==
    IF _piezo_feedback = 0 \/ _face_feedback = 0 THEN {}
    ELSE {heap[_history[i]] : i \in {j \in 1..Len(_history) :
                                        /\ _history[j] > _piezo_feedback
                                        /\ _history[j] > _face_feedback}}

\* C3: every signal the bridge publishes has speed_modifier 0 when its
\* should_stop flag is set
C3_StopImpliesZeroSpeed ==
    \A s \in Published : s.should_stop => s.speed_modifier = 0

C3_Witness ==
    \E s \in PublishedTwoInputFusions :
        /\ s.should_stop
        /\ heap[_piezo_feedback].should_stop
        /\ ~heap[_face_feedback].should_stop

\* C4: every signal the bridge publishes has should_stop set at level 4 and
\* should_pause set at level 3
C4_LevelImpliesFlags ==
    \A s \in Published :
        /\ s.pain_level = 4 => s.should_stop
        /\ s.pain_level = 3 => s.should_pause

C4_Witness ==
    \E s \in PublishedTwoInputFusions :
        /\ s.pain_level = 4
        /\ heap[_piezo_feedback].pain_level = 1
        /\ heap[_face_feedback].pain_level = 4

\* the conservative fail-safe values
IsFailSafe(m) ==
    /\ m.speed_modifier = 5000
    /\ m.amplitude_modifier = 5000
    /\ m.force_modifier = 5000
    /\ m.should_pause
    /\ m.confidence = Rat(0, 1)

\* C5: with default_on_missing set and no update ever applied, get_modifiers
\* returns the conservative fail-safe defaults (0.5 / 0.5 / 0.5, pause,
\* confidence 0), so is_safe_to_proceed is false
C5_NoDataFailSafe ==
    (returned # None /\ default_on_missing /\ n_updates = 0) =>
        /\ IsFailSafe(returned)
        /\ ~(~returned.should_stop /\ ~returned.should_pause)

\* the fields of the returned value that the payload carried
Carried(data) == DOMAIN data \cap GestureModifiersFields

\* C6: with default_on_missing set and an update applied, a get_modifiers
\* call made more than stale_threshold after the most recent applied update
\* returns the fail-safe values, a call made within stale_threshold returns
\* the values of that update (also when the update arrived while the consumer
\* was stale), and the consumer never returns to the no-data state
C6_StalenessCycle ==
    /\ [](returned # None /\ default_on_missing /\ last_applied # None =>
            IF now - last_applied.at > stale_threshold
            THEN IsFailSafe(returned)
            ELSE \A k \in Carried(last_applied.data) :
                    returned[k] = last_applied.data[k])
    /\ [][_last_update > 0 => _last_update' > 0]_vars

C6_Witness ==
    /\ returned # None
    /\ default_on_missing
    /\ last_applied # None
    /\ last_applied.stale_before
    /\ now - last_applied.at = stale_threshold
    /\ "should_stop" \in DOMAIN last_applied.data
    /\ last_applied.data.should_stop

\* a thread is waiting for the consumer's lock inside get_modifiers
InGetModifiers(t) ==
    /\ pc[t] = "wait_lock"
    /\ stack[t] # <<>>
    /\ stack[t][Len(stack[t])] = "get"

\* C7: get_modifiers never blocks indefinitely: a call that waits for the
\* lock is never waiting on a holder that is itself waiting for that lock,
\* also when a callback calls get_modifiers during the update
C7_GetNeverBlocksForever ==
    \A t \in Threads :
        InGetModifiers(t) => (_lock = Free \/ pc[_lock] # "wait_lock")

\* the level of the most recent applied update, 0 on a fresh consumer
AppliedLevel(applied) ==
    IF applied = None THEN 0 ELSE DictGet(applied.data, "pain_level", 0)

\* C8 as stated: with both callbacks registered, on_high_pain fires exactly
\* once at each update from a level below 3 to a level of 3 or more (a jump
\* to 4 included), and at no other update
C8_HighFiresOnEveryRiseTo3OrMore ==
    [][(n_updates' = n_updates + 1
            /\ _on_high_pain # NoCallback /\ _on_critical_pain # NoCallback) =>
        high_calls' - high_calls =
            (IF AppliedLevel(last_applied) < 3 /\ AppliedLevel(last_applied') >= 3
             THEN 1 ELSE 0)]_vars

\* C8 amended: with both callbacks registered, on_high_pain fires exactly
\* once at each update from a level below 3 to level 3, and at no other
\* update; a jump from below 3 to level 4 fires on_critical_pain only
C8_HighFiresOnRiseTo3 ==
    [][(n_updates' = n_updates + 1
            /\ _on_high_pain # NoCallback /\ _on_critical_pain # NoCallback) =>
        /\ high_calls' - high_calls =
              (IF AppliedLevel(last_applied) < 3 /\ AppliedLevel(last_applied') = 3
               THEN 1 ELSE 0)
        /\ (AppliedLevel(last_applied) < 3 /\ AppliedLevel(last_applied') = 4) =>
              critical_calls' - critical_calls = 1]_vars

C8_Witness ==
    /\ _on_high_pain # NoCallback
    /\ _on_critical_pain # NoCallback
    /\ AppliedLevel(last_applied) = 4
    /\ n_updates = 2
    /\ high_calls = 1
    /\ critical_calls = 1

\* C9: when on_critical_pain is registered it fires exactly once at each
\* update from a level below 4 to level 4 and at no other update, the
\* previous level being that of the last applied update, stale or not
C9_CriticalFiresOnRiseTo4 ==
    [][(n_updates' = n_updates + 1 /\ _on_critical_pain # NoCallback) =>
        critical_calls' - critical_calls =
            (IF AppliedLevel(last_applied) < 4 /\ AppliedLevel(last_applied') = 4
             THEN 1 ELSE 0)]_vars

C9_Witness ==
    /\ _on_critical_pain # NoCallback
    /\ n_updates = 3
    /\ critical_calls = 1
    /\ AppliedLevel(last_applied) = 4
    /\ last_applied.stale_before
    /\ _modifiers.should_stop

\* C10: feeding 1,2,3,3,2,4,4,1 to a fresh consumer with both callbacks
\* registered fires on_high_pain once, at the first 3, and on_critical_pain
\* once, at the first 4; a rise from below 3 to 4 fires on_critical_pain
\* only, and an update whose previous level already reached a callback's
\* threshold does not fire that callback
C10_ScriptFiresEachOnce ==
    /\ [](n_updates <= Len(Script) =>
            /\ high_calls = (IF n_updates >= 3 THEN 1 ELSE 0)
            /\ critical_calls = (IF n_updates >= 6 THEN 1 ELSE 0))
    /\ [][n_updates' = n_updates + 1 =>
            /\ (AppliedLevel(last_applied) < 3 /\ AppliedLevel(last_applied') = 4) =>
                  /\ critical_calls' = critical_calls + 1
                  /\ high_calls' = high_calls
            /\ AppliedLevel(last_applied) >= 3 => high_calls' = high_calls
            /\ AppliedLevel(last_applied) >= 4 => critical_calls' = critical_calls]_vars

C10_Witness ==
    /\ n_updates = Len(Script)
    /\ AppliedLevel(last_applied) = 1
    /\ high_calls = 1
    /\ critical_calls = 1

\* C11: a feedback with should_stop = true translates to speed_override 0 and
\* motion_scale 0 whatever the floors, external_stop true, enable_motion
\* false and force_limit still at least min_force; a feedback with
\* should_stop = false translates to enable_motion true with speed_override,
\* motion_scale and force_limit at least their floors; enable_motion is
\* always the negation of external_stop
C11_StopOverridesFloors ==
    (nachi_cmd # None /\ "should_stop" \in DOMAIN irds_feedback) =>
        /\ nachi_cmd.enable_motion = ~nachi_cmd.external_stop
        /\ nachi_cmd.force_limit >= floors[3]
        /\ irds_feedback.should_stop =>
              /\ nachi_cmd.speed_override = 0
              /\ nachi_cmd.motion_scale = 0
              /\ nachi_cmd.external_stop
              /\ ~nachi_cmd.enable_motion
        /\ ~irds_feedback.should_stop =>
              /\ nachi_cmd.enable_motion
              /\ nachi_cmd.speed_override >= floors[1]
              /\ nachi_cmd.motion_scale >= floors[2]

C11_Witness ==
    /\ nachi_cmd # None
    /\ {"should_stop", "speed_modifier"} \subseteq DOMAIN irds_feedback
    /\ irds_feedback.should_stop
    /\ floors = <<50, 60, 100>>
    /\ irds_feedback.speed_modifier = 10000
    /\ nachi_cmd.force_limit = 100

\* the percentage nearest to a modifier (ties upward)
RoundPercent(modifier) == (modifier + 50) \div 100

\* C12: without a stop, every speed modifier m in [0, 1] and floor f
\* translate to max(f, round(m * 100)) with rounding to nearest, which lies
\* in 0..100 whenever f <= 100; 0.156 gives 16
C12_RoundsToNearest ==
    (/\ nachi_cmd # None
     /\ "speed_modifier" \in DOMAIN irds_feedback
     /\ ~irds_feedback.should_stop) =>
        /\ nachi_cmd.speed_override =
              Max2(floors[1], RoundPercent(irds_feedback.speed_modifier))
        /\ floors[1] <= 100 => nachi_cmd.speed_override \in 0..100
\* the buffer is what to_bytes made of the command, and it has been decoded
DecodedIntact == parsed # None /\ wire = to_bytes(command)

\* C13 as stated: for every valid command, from_bytes(to_bytes(c)) equals c
\* field for field, whatever its confidence in [0, 1] and its source
C13_RoundTripAnyCommand ==
    DecodedIntact => parsed = command

\* C13: to_bytes yields 16 bytes whose byte 3 has bit 0 = external_pause,
\* bit 1 = external_stop, bit 2 = enable_motion; from_bytes(to_bytes(c))
\* equals c in every field except source, which is always 'pain_feedback',
\* and confidence, which is truncated to thousandths; so the round trip is
\* exact when c.source = 'pain_feedback' and c.confidence is a whole number
\* of thousandths
C13_RoundTripOnWireFields ==
    (wire # None /\ wire = to_bytes(command)) =>
        /\ "bytes" \in DOMAIN wire
        /\ Len(wire.bytes) = 16
        /\ (wire.bytes[4] % 2 = 1) = command.external_pause
        /\ ((wire.bytes[4] \div 2) % 2 = 1) = command.external_stop
        /\ ((wire.bytes[4] \div 4) % 2 = 1) = command.enable_motion
        /\ wire.bytes[4] < 8
        /\ parsed # None =>
              /\ parsed = [command EXCEPT
                              !.source = "pain_feedback",
                              !.confidence = Rat((command.confidence.n * 1000)
                                                   \div command.confidence.d, 1000)]
              /\ (/\ command.source = "pain_feedback"
                  /\ 1000 % command.confidence.d = 0) => parsed = command

C13_Witness ==
    /\ DecodedIntact
    /\ parsed = command
    /\ command.confidence = Rat(9, 10)
    /\ command.timestamp = 1700000000
    /\ command.pain_level = 256
    /\ command.external_stop /\ ~command.enable_motion /\ ~command.external_pause

\* C14: from_bytes on a buffer whose length is not 16 raises and produces
\* no command
C14_WrongLengthRaises ==
    (parsed # None /\ Len(wire.bytes) # 16) =>
        /\ parsed = [raised |-> "struct.error"]
        /\ "speed_override" \notin DOMAIN parsed

C14_Witness ==
    /\ parsed # None
    /\ Len(wire.bytes) = 17
    /\ "raised" \in DOMAIN parsed
\* the level a mapper call uses: the requested level brought into 0..4
ClampedLevel(level) == IF level < 0 THEN 0 ELSE IF level > 4 THEN 4 ELSE level

\* the result of one mapper call is that of the clamped level, with the
\* pause flag at level 3 only and the stop flag at level 4 only
ClampedResult(call, result) ==
    /\ DOMAIN result = {"speed_modifier", "amplitude_modifier", "force_modifier",
                        "should_pause", "should_stop"}
    /\ result = get_modifiers(ClampedLevel(call.level), call.score)
    /\ result.should_pause = (ClampedLevel(call.level) = 3)
    /\ result.should_stop = (ClampedLevel(call.level) = 4)

\* C15: for every integer level, also below 0 and above 4, and every score
\* the mapper returns the result of the clamped level; should_pause holds
\* exactly at clamped level 3 and should_stop exactly at clamped level 4, so
\* two signals of one level with different scores carry the same flags
C15_ClampedLevelDecidesFlags ==
    mapper_results # None =>
        /\ ClampedResult(mapper_args.a, mapper_results.a)
        /\ ClampedResult(mapper_args.b, mapper_results.b)
        /\ mapper_args.a.level = mapper_args.b.level =>
              /\ mapper_results.a.should_pause = mapper_results.b.should_pause
              /\ mapper_results.a.should_stop = mapper_results.b.should_stop

C15_Witness ==
    /\ mapper_results # None
    /\ mapper_args.a.level = -2
    /\ mapper_args.b.level = 6
    /\ mapper_args.a.score # mapper_args.b.score
    /\ mapper_results.b.should_stop
    /\ ~mapper_results.a.should_pause

\* every modifier of result x is at least that of result y
AtLeastAsFree(x, y) ==
    /\ x.speed_modifier >= y.speed_modifier
    /\ x.amplitude_modifier >= y.amplitude_modifier
    /\ x.force_modifier >= y.force_modifier

\* C16: with the default maps and one score, each of speed, amplitude and
\* force at level L is at least its value at level L + 1, for L in 0..3
C16_NonIncreasingAtFixedScore ==
    (/\ mapper_results # None
     /\ mapper_args.a.score = mapper_args.b.score
     /\ mapper_args.a.level \in 0..3
     /\ mapper_args.b.level = mapper_args.a.level + 1) =>
        AtLeastAsFree(mapper_results.a, mapper_results.b)

C16_Witness ==
    /\ mapper_results # None
    /\ mapper_args.a.score = mapper_args.b.score
    /\ mapper_args.a.score % 20 # 0
    /\ mapper_args.a.level = 1
    /\ mapper_args.b.level = 2
    /\ mapper_results.a.force_modifier > mapper_results.b.force_modifier

\* C17: with the default maps, of two mapper results for levels La < Lb and
\* any two scores, each modifier of the higher level is at most that of the
\* lower level
C17_NonIncreasingAcrossScores ==
    (/\ mapper_results # None
     /\ mapper_args.a.level \in 0..4
     /\ mapper_args.b.level \in 0..4
     /\ mapper_args.a.level < mapper_args.b.level) =>
        AtLeastAsFree(mapper_results.a, mapper_results.b)

\* the level vocabularies, lowest level first
PiezoVocabulary == <<"NONE", "LIGHT", "MODERATE", "HIGH", "CRITICAL">>

FaceVocabulary == <<"NONE", "MILD", "MODERATE", "SEVERE", "EXTREME">>

\* name is the word of the vocabulary for the ordinal level
Denotes(vocabulary, name, level) ==
    /\ level + 1 \in DOMAIN vocabulary
    /\ vocabulary[level + 1] = name

\* C18: the piezo names NONE, LIGHT, MODERATE, HIGH, CRITICAL and the face
\* names NONE, MILD, MODERATE, SEVERE, EXTREME map to the levels 0..4 in that
\* order; a piezo signal has confidence 1.0 and source 'piezo'; a face
\* signal has source 'face' and confidence 0.9 if a face was detected, else
\* 0.0, and is produced also when no face was detected
C18_AdaptersMapNamesAndConfidence ==
    adapted # None =>
        /\ "pain_level" \in DOMAIN adapted
        /\ sensor_kind = "piezo" =>
              /\ \A l \in 0..4 : sensor_reading.level = PiezoVocabulary[l + 1]
                                    => adapted.pain_level = l
              /\ adapted.confidence = Rat(1, 1)
              /\ adapted.source = "piezo"
        /\ sensor_kind = "face" =>
              /\ \A l \in 0..4 : sensor_reading.level = FaceVocabulary[l + 1]
                                    => adapted.pain_level = l
              /\ adapted.confidence =
                    (IF sensor_reading.face_detected THEN Rat(9, 10) ELSE Rat(0, 1))
              /\ adapted.source = "face"

C18_Witness ==
    /\ adapted # None
    /\ sensor_kind = "face"
    /\ ~sensor_reading.face_detected
    /\ sensor_reading.level = "SEVERE"
    /\ adapted.pain_level = 3
    /\ adapted.confidence = Rat(0, 1)

\* the name of a signal denotes its level in the vocabulary of its source
NameMatchesLevel(signal) ==
    Denotes(CASE signal.source = "piezo" -> PiezoVocabulary
              [] signal.source = "face" -> FaceVocabulary
              [] OTHER -> level_names,
            signal.pain_level_name, signal.pain_level)

\* C19: in every signal made by an adapter or by fuse_feedback (of zero, one
\* or two inputs) pain_level_name denotes the ordinal pain_level, in the
\* source's vocabulary for 'piezo' and 'face' and in the canonical names for
\* 'fused', whatever level string the reading carried
C19_NameDenotesLevel ==
    \A i \in 1..Len(heap) : NameMatchesLevel(heap[i])

\* the signal fuse_feedback makes of no input
IsFullSpeedEmpty(signal) ==
    /\ signal.pain_level = 0
    /\ signal.pain_score = Rat(0, 1)
    /\ signal.confidence = Rat(0, 1)
    /\ signal.source = "fused"
    /\ signal.speed_modifier = 10000
    /\ signal.amplitude_modifier = 10000
    /\ signal.force_modifier = 10000
    /\ ~signal.should_pause
    /\ ~signal.should_stop

\* C20: fuse_feedback of two absent inputs yields level 0, score 0,
\* confidence 0, source 'fused', speed = amplitude = force = 1.0 and no
\* pause or stop; so a bridge neither of whose sources has produced a
\* reading publishes exactly this signal at every fusion tick
C20_NoReadingPublishesFullSpeed ==
    (_piezo_feedback = 0 /\ _face_feedback = 0) =>
        /\ Len(_history) = ncalls
        /\ \A i \in 1..Len(_history) : IsFullSpeedEmpty(heap[_history[i]])

C20_Witness ==
    /\ _piezo_feedback = 0
    /\ _face_feedback = 0
    /\ ncalls = 3
    /\ Len(_history) = 3
    /\ IsFullSpeedEmpty(heap[_history[3]])
\* the fields a pass-through leaves as they are
PassedFields == {"pain_level", "pain_score", "confidence", "speed_modifier",
                 "amplitude_modifier", "force_modifier", "should_pause", "should_stop"}

\* result is the given input relabelled 'fused'
IsPassThrough(result, input) ==
    /\ result.source = "fused"
    /\ \A k \in PassedFields : result[k] = input[k]

\* C21: fuse_feedback with exactly one input present returns a signal with
\* source 'fused' whose pain_level, pain_score, confidence, three modifiers
\* and two flags are those of the present input, for either source and any
\* weights, also weights whose sum is zero
C21_OneInputPassesThrough ==
    fuse_result # None =>
        /\ (arg_piezo # None /\ arg_face = None) => IsPassThrough(fuse_result, arg_piezo)
        /\ (arg_piezo = None /\ arg_face # None) => IsPassThrough(fuse_result, arg_face)

C21_Witness ==
    /\ fuse_result # None
    /\ arg_piezo = None
    /\ arg_face # None
    /\ arg_weights = <<0, 0>>
    /\ arg_face.pain_level = 2
    /\ arg_face.speed_modifier = 10000
    /\ arg_face.should_stop
    /\ fuse_result.source = "fused"

\* C22: no field of a signal changes once the signal exists: every object
\* made so far, hence every history entry and every stored per-source
\* signal, keeps its field values, source included, at every call of
\* update_piezo, update_face and publish_fused
C22_SignalsNeverChange ==
    [][\A i \in 1..Len(heap) : heap'[i] = heap[i]]_vars
\* the last n elements of a sequence
LastOf(seq, n) == SubSeq(seq, Len(seq) - n + 1, Len(seq))

\* C23: whatever the interleaving of the publishing threads, whenever the
\* publisher's lock is free the history holds at most 100 signals, namely
\* the last min(n, 100) of the n signals append_log so far in append order,
\* and get_latest returns the signal append_log most recently
C23_HistoryIsLast100 ==
    /\ [](pub_lock = Free =>
            /\ Len(_history) <= 100
            /\ _history = LastOf(append_log, Min2(Len(append_log), 100)))
    /\ [][latest' # latest => latest' = append_log[Len(append_log)]]_vars

C23_Witness ==
    /\ pub_lock = Free
    /\ Len(append_log) = 102
    /\ Len(_history) = 100
    /\ \E i \in 1..99 : _history[i] > _history[i + 1]
    /\ latest = append_log[102]
\* no publish call is in progress
NoPublishInFlight == \A t \in PubThreads : ppc[t] \in {"idle", "get"}

\* C24: with a file sink, once every publish call in flight has returned,
\* the primary file holds the signal appended to the history last and the
\* history file holds the last min(n, 20) history entries in order, ending
\* with that signal
C24_FilesAgreeWithHistory ==
    (NoPublishInFlight /\ Len(_history) > 0) =>
        /\ output_file.chunks = to_json(_history[Len(_history)])
        /\ history_file.chunks = LastOf(_history, Min2(Len(_history), 20))

\* C25: whatever the interleaving with the publish calls, what a reader of
\* the primary file reads is the complete document of one published signal,
\* never an empty, truncated or mixed one
C25_ReaderSeesWholeDocument ==
    observed.exists => \E k \in 1..npublished : observed.chunks = to_json(k)
\* how many times a listener was invoked by the publish call
TimesInvoked(l) == Cardinality({i \in 1..Len(invocations) : invocations[i] = l})

\* C26: when a publish call returns, every listener that is registered and
\* was not removed has been invoked exactly once, whether or not the file
\* write or the socket send failed, an earlier listener raised, or an
\* earlier listener called remove_callback or add_callback
C26_EveryListenerInvokedOnce ==
    fan_pc = "done" =>
        \A i \in 1..Len(_callbacks) : TimesInvoked(_callbacks[i]) = 1

\* C27: every read and write of the shared signal state is made while
\* holding the lock of the object that owns it, also where the bridge
\* publishes a per-source signal with fusion disabled
C27_SharedStateUnderLock ==
    unlocked_reads = {}

\* the text is not a whole JSON object: it does not open with a brace, or
\* does not close with one, or holds something other than pairs between
NotAnObject(text) ==
    \/ Len(text) < 2
    \/ text[1].t # "{"
    \/ text[Len(text)].t # "}"
    \/ \E i \in 2..(Len(text) - 1) : text[i].t # "pair"

\* C28: an iteration of the background loop that reads a text which is not
\* JSON, or is JSON but not an object, leaves the modifiers and the
\* last-update time as they were and fires no alert, so the staleness timer
\* is not refreshed; the loop stays alive for its next iteration and
\* get_modifiers goes on returning modifiers
C28_MalformedPayloadIgnored ==
    /\ [](loop_alive /\ (returned # None => DOMAIN returned = GestureModifiersFields))
    /\ [][(iterations' # iterations /\ last_payload'.read
              /\ NotAnObject(last_payload'.text))
          => /\ _modifiers' = _modifiers
             /\ _last_update' = _last_update
             /\ high_calls' = high_calls
             /\ critical_calls' = critical_calls
             /\ loop_alive']_vars

C28_Witness ==
    /\ last_payload.read
    /\ NotAnObject(last_payload.text)
    /\ Len(last_payload.text) > 0
    /\ n_updates > 0
    /\ _modifiers.pain_level = 4
    /\ IsStale(_last_update, stale_threshold, now)
    /\ default_on_missing
    /\ returned # None
    /\ returned.should_pause
    /\ returned.speed_modifier = 5000

\* C29: with fusion disabled every returned update call has published
\* exactly once the signal made from its own reading, whatever the
\* interleaving; with fusion enabled update calls publish nothing
C29_UpdatePublishesOwnSignal ==
    /\ ~enable_fused =>
          /\ \A i \in 1..Len(bridge_log) : bridge_log[i].sent = bridge_log[i].made
          /\ Len(_history) = Len(bridge_log)
          /\ \A i \in 1..Len(_history), j \in 1..Len(_history) :
                i # j => _history[i] # _history[j]
    /\ enable_fused => Len(bridge_log) = 0 /\ Len(_history) = ticks_done

\* the signal is what fuse_feedback makes of a pair of stored signals
IsFusionOf(signal, pair) ==
    LET fused == fuse_feedback(Deref(heap, pair[1]), Deref(heap, pair[2]),
                               bridge_weights[1], bridge_weights[2])
    IN  signal = fused

\* C30: with fusion enabled every published signal is the fusion of a piezo
\* signal and a face signal (either may be absent) that were the bridge's
\* latest signals at one same instant, whatever the interleaving with the
\* update calls, and each returned fusion tick has published exactly one
\* signal
C30_FusedFromOneSnapshot ==
    enable_fused =>
        /\ Len(_history) = ticks_done
        /\ \A i \in 1..Len(_history) :
              \E pair \in pairs_seen : IsFusionOf(heap[_history[i]], pair)

C30_Witness ==
    /\ enable_fused
    /\ ticks_done = 1
    /\ Len(_history) = 1
    /\ _piezo_feedback # 0
    /\ _face_feedback # 0
    /\ _history[1] \notin {_piezo_feedback, _face_feedback}
    /\ IsFusionOf(heap[_history[1]], <<_piezo_feedback, _face_feedback>>)
    /\ heap[_history[1]].pain_level_name = "HIGH"

\* C31: once stop() has cleared the flag the background loop sees it at
\* its next while test and ends, having applied at most the one update
\* that was in progress, and stop() itself returns
C31_StopEndsLoop ==
    /\ [](stop_pc # "idle" => n_updates <= updates_at_stop + 1)
    /\ ((stop_pc # "idle" /\ pc["poll"] # "unstarted") ~> (pc["poll"] = "exited"))
    /\ ((stop_pc = "join") ~> (stop_pc = "returned"))
\* what get_modifiers returns in the current state
CurrentModifiers ==
    GetModifiers(_modifiers, _last_update, default_on_missing, stale_threshold, now)

StaleNow == IsStale(_last_update, stale_threshold, now) /\ default_on_missing

\* C32: is_safe_to_proceed is true exactly when the modifiers that
\* get_modifiers returns at that moment have neither should_stop nor
\* should_pause; get_adjusted_params returns each base value times the
\* modifier of that snapshot and the same flag; in the stale state both
\* report not safe
C32_SafetyFromOneSnapshot ==
    safety_result # None =>
        /\ safety_result.call = "is_safe_to_proceed" =>
              /\ safety_result.value
                    = (~CurrentModifiers.should_stop /\ ~CurrentModifiers.should_pause)
              /\ StaleNow => ~safety_result.value
        /\ safety_result.call = "get_adjusted_params" =>
              /\ safety_result.value.speed
                    = safety_result.base.speed * CurrentModifiers.speed_modifier
              /\ safety_result.value.amplitude
                    = safety_result.base.amplitude * CurrentModifiers.amplitude_modifier
              /\ safety_result.value.force
                    = safety_result.base.force * CurrentModifiers.force_modifier
              /\ safety_result.value.is_safe
                    = (~CurrentModifiers.should_stop /\ ~CurrentModifiers.should_pause)
              /\ StaleNow => ~safety_result.value.is_safe

C32_Witness ==
    /\ safety_result # None
    /\ safety_result.call = "is_safe_to_proceed"
    /\ StaleNow
    /\ ~_modifiers.should_stop
    /\ ~_modifiers.should_pause
    /\ ~safety_result.value

\* C35: while the consumer is stale (default_on_missing set) get_modifiers
\* reports should_stop false, pain level 0 and speed, amplitude and force
\* 0.5 whatever the last applied update said, so after an update with
\* should_stop true and speed 0 the reported speed rises to 0.5 and
\* should_stop falls to false; is_safe_to_proceed is false all the same
C35_StaleReplacesLastSignal ==
    StaleNow =>
        /\ returned # None =>
              /\ ~returned.should_stop
              /\ returned.pain_level = 0
              /\ returned.speed_modifier = 5000
              /\ returned.amplitude_modifier = 5000
              /\ returned.force_modifier = 5000
        /\ (safety_result # None /\ safety_result.call = "is_safe_to_proceed")
              => ~safety_result.value

C35_Witness ==
    /\ StaleNow
    /\ _modifiers.should_stop
    /\ _modifiers.speed_modifier = 0
    /\ _modifiers.pain_level = 4
    /\ returned # None
    /\ ~returned.should_stop
    /\ returned.speed_modifier = 5000
    /\ safety_result # None
    /\ safety_result.call = "is_safe_to_proceed"
    /\ ~safety_result.value
\* C33: get_last_command returns the command of the most recent
\* send_command that returned True; a send_command that returns False
\* leaves it unchanged
C33_LastCommandIsLastSent ==
    _last_command = last_sent
\* C34: get_history(count) returns, for every count >= 0, the last
\* min(count, len(history)) published signals, oldest first, so at most
\* count signals and none for count 0
C34_HistoryReturnsLastCount ==
    got_history # None =>
        /\ Len(got_history.result) <= got_history.count
        /\ got_history.result
              = LastOf(_history, Min2(got_history.count, Len(_history)))
\* C36: once the sensors have stopped, every tick of the fusion loop still
\* publishes the fusion of the stored signals, which are never cleared, and
\* the consumer polling that output, which dates an update by its receipt,
\* is never stale and never returns the fail-safe defaults
C36_FrozenSignalsStayFresh ==
    /\ [](/\ Len(_history) = fused_at
          /\ ~IsStale(_last_update, stale_threshold, now)
          /\ (stopped_at > 0 /\ fused_at > stopped_at)
                => IsFusionOf(heap[_history[Len(_history)]],
                              <<_piezo_feedback, _face_feedback>>))
    /\ [][(stopped_at > 0 => (_piezo_feedback' = _piezo_feedback
                              /\ _face_feedback' = _face_feedback))
           /\ ((returned' # returned /\ returned' # None /\ _last_update > 0)
                 => returned' = GestureModifiers(_modifiers))]_vars

C36_Witness ==
    /\ stopped_at > 0
    /\ _piezo_feedback # 0
    /\ _face_feedback = 0
    /\ now - stamps[_piezo_feedback] > stale_threshold
    /\ default_on_missing
    /\ fused_at = now
    /\ _last_update = now
    /\ _modifiers.timestamp = stamps[_piezo_feedback]
    /\ returned # None
    /\ returned.pain_level = 3
    /\ returned.speed_modifier # 5000
\* the value _update_modifiers and translate take for a modifier or a flag
\* that the object omits
PermissiveDefault(field) ==
    IF field \in {"should_pause", "should_stop"} THEN FALSE ELSE 10000

OmittableFields ==
    {"speed_modifier", "amplitude_modifier", "force_modifier", "should_pause",
     "should_stop"}

\* C37: an object that omits fields is applied with permissive defaults: in
\* the consumer every omitted modifier becomes 1.0 and every omitted flag
\* false, the update counts and refreshes the staleness timer, and after
\* the empty object get_modifiers returns a full-speed state; in the
\* translator (floors at most 100) an omitted modifier gives the percentage
\* 100 and an omitted should_stop gives enable_motion true
C37_OmittedFieldsGetPermissiveDefaults ==
    /\ last_applied # None =>
          /\ \A field \in OmittableFields \ DOMAIN last_applied.data :
                _modifiers[field] = PermissiveDefault(field)
          /\ _last_update = last_applied.at
          /\ n_updates > 0
          /\ (last_applied.data = <<>> /\ returned # None /\ now = last_applied.at)
                => /\ returned.speed_modifier = 10000
                   /\ returned.amplitude_modifier = 10000
                   /\ returned.force_modifier = 10000
                   /\ ~returned.should_pause
                   /\ ~returned.should_stop
    /\ (nachi_cmd # None /\ "should_stop" \notin DOMAIN irds_feedback) =>
          /\ nachi_cmd.enable_motion
          /\ ("speed_modifier" \notin DOMAIN irds_feedback /\ floors[1] <= 100)
                => nachi_cmd.speed_override = 100
          /\ ("amplitude_modifier" \notin DOMAIN irds_feedback /\ floors[2] <= 100)
                => nachi_cmd.motion_scale = 100
          /\ ("force_modifier" \notin DOMAIN irds_feedback /\ floors[3] <= 100)
                => nachi_cmd.force_limit = 100

C37_Witness ==
    /\ last_applied # None
    /\ last_applied.data = <<>>
    /\ last_applied.stale_before
    /\ default_on_missing
    /\ now = last_applied.at
    /\ returned # None
    /\ returned.speed_modifier = 10000
    /\ irds_feedback = <<>>
    /\ floors = DefaultFloors
    /\ nachi_cmd # None
    /\ nachi_cmd.force_limit = 100
    /\ nachi_cmd.enable_motion
BothStored == _piezo_feedback # 0 /\ _face_feedback # 0

ZeroWeightSum == bridge_weights[1] + bridge_weights[2] = 0

\* C38: with both signals stored and weights of sum 0 the fusion in
\* publish_fused raises (and only then): nothing is made or published, the
\* bridge lock is released, the loop thread ends, and from then on nothing
\* is published although _running is still as start_fusion_loop set it
C38_ZeroWeightsKillFusionLoop ==
    /\ [](/\ blocal["fusion"].kind = "raised" => (BothStored /\ ZeroWeightSum)
          /\ bpc["fusion"] = "dead" => bridge_lock # "fusion"
          /\ Len(_history) = ticks_done)
    /\ [][/\ (bpc["fusion"] = "idle" /\ bpc'["fusion"] = "unlock" /\ BothStored
                /\ ZeroWeightSum)
             => (blocal'["fusion"].kind = "raised" /\ heap' = heap
                    /\ _history' = _history)
          /\ (bpc["fusion"] = "unlock" /\ bpc'["fusion"] # "unlock"
                /\ blocal["fusion"].kind = "raised")
             => (bpc'["fusion"] = "dead" /\ bridge_lock' = Free
                    /\ _history' = _history /\ bridge_running' = bridge_running)
          /\ bpc["fusion"] = "dead"
             => (bpc'["fusion"] = "dead" /\ _history' = _history)]_vars

C38_Witness ==
    /\ bpc["fusion"] = "dead"
    /\ bridge_running
    /\ bridge_lock = Free
    /\ ticks_done = 1
    /\ died_calls > 0
    /\ ncalls > died_calls
    /\ \A t \in SensorThreads : bpc[t] = "idle"
\* the reading's level string is not a name of its source's vocabulary
UnknownLevel ==
    IF sensor_kind = "piezo" THEN sensor_reading.level \notin DOMAIN PIEZO_LEVEL_MAP
    ELSE sensor_reading.level \notin DOMAIN FACE_LEVEL_MAP

\* C39: a reading whose level string is outside its source's vocabulary
\* gives a signal (the adapter does not raise) of pain level 0, without
\* pause or stop, with the three modifiers in [0.8, 1.0], with the
\* confidence of any reading of that source (1.0 for piezo) and with the
\* unrecognised string as its name
C39_UnknownLevelMapsToNone ==
    (adapted # None /\ UnknownLevel) =>
        /\ "pain_level" \in DOMAIN adapted
        /\ adapted.pain_level = 0
        /\ ~adapted.should_pause
        /\ ~adapted.should_stop
        /\ \A m \in {adapted.speed_modifier, adapted.amplitude_modifier,
                     adapted.force_modifier} : m >= 8000 /\ m <= 10000
        /\ adapted.pain_level_name = sensor_reading.level
        /\ adapted.confidence =
              (IF sensor_kind = "piezo" \/ sensor_reading.face_detected
               THEN (IF sensor_kind = "piezo" THEN Rat(1, 1) ELSE Rat(9, 10))
               ELSE Rat(0, 1))

C39_Witness ==
    /\ adapted # None
    /\ sensor_kind = "piezo"
    /\ sensor_reading.level = "SEVERE"
    /\ adapted.pain_level = 0
    /\ adapted.pain_level_name = "SEVERE"
    /\ adapted.confidence = Rat(1, 1)
    /\ ~adapted.should_stop
\* the parts of the statement on FeedbackController that do not depend on
\* which readings raise the speed
ControllerStateInvariant ==
    /\ (arm_active = FALSE) <=> (arm_speed = 0)
    /\ arm_speed \in {0, 20, 50, 80, 100}

StoppedUntilNone ==
    /\ last_level' = "CRITICAL" => (~arm_active' /\ arm_speed' = 0)
    /\ (~arm_active /\ arm_speed = 0 /\ nreadings' > nreadings
          /\ last_level' \in {"LIGHT", "MODERATE", "HIGH", "CRITICAL"})
       => (~arm_active' /\ arm_speed' = 0)

\* C40: after any sequence of process_reading calls arm_active is false
\* exactly when arm_speed is 0, arm_speed is one of 0, 20, 50, 80, 100,
\* arm_speed increases only on a reading of level NONE, and after a
\* CRITICAL reading the arm stays inactive at speed 0 through LIGHT,
\* MODERATE, HIGH and CRITICAL readings
C40_SpeedRisesOnlyOnNone ==
    /\ []ControllerStateInvariant
    /\ [][StoppedUntilNone
          /\ (arm_speed' > arm_speed => last_level' = "NONE")]_vars

\* the same without the part about which readings raise the speed
C40_OtherParts ==
    /\ []ControllerStateInvariant
    /\ [][StoppedUntilNone]_vars
====
